---------------------------- MODULE Spec2Model ----------------------------
(***************************************************************************)
(* State-machine model of the driver-admin front end: the session wrapper  *)
(* (AuthContext.jsx), the shared HTTP client with its two interceptors     *)
(* (services/api, kept in Layout.jsx), and the page components.            *)
(***************************************************************************)
EXTENDS Integers, Sequences, FiniteSets, Bags, TLC

(***************************************************************************)
(* Bounds of the model.                                                    *)
(***************************************************************************)
\* number of requests of the session model that may be in flight together
MaxInFlight == 2

(***************************************************************************)
(* JavaScript values.                                                      *)
(***************************************************************************)
\* null / undefined / a missing local-storage item
Null == "null"

\* JavaScript truthiness of the values the model uses: null, undefined and the
\* empty string are falsy, every other string is truthy
Truthy(v) == v \notin {Null, ""}

\* a || b
OrElse(a, b) == IF Truthy(a) THEN a ELSE b

(***************************************************************************)
(* Session: local storage, the session context, the HTTP client.           *)
(***************************************************************************)
\* tokens and users the backend may return from /auth/login
Tokens == {"t1", "t2"}
Users == {"u1", "u2"}

\* outcomes of a failed request: no response at all (network error), or a
\* response with an error status and an optional message in its body
NoResponse == [hasResponse |-> FALSE, status |-> 0, message |-> Null]
ErrorResponses ==
    [hasResponse : {TRUE}, status : {400, 401, 500},
     message : {Null, "", "Invalid credentials"}]
Errors == {NoResponse} \cup ErrorResponses

\* error.response?.status
StatusOf(error) == IF error.hasResponse THEN error.status ELSE 0

\* error.response?.data?.message
MessageOf(error) == IF error.hasResponse THEN error.message ELSE Null

\* the Authorization header of a request
NoHeader == [scheme |-> "none", cred |-> Null]
Bearer(token) == [scheme |-> "Bearer", cred |-> token]

Idle == [kind |-> "idle", auth |-> NoHeader]

VARIABLES
    lsToken,      \* localStorage item 'token'
    lsUser,       \* localStorage item 'user'
    user,         \* AuthProvider state: user
    path,         \* window.location path
    navPending,   \* window.location.href was assigned: a document load is due
    inflight,     \* requests of the shared client awaiting their response
    sentSince,    \* header of the last request sent since the last session event
    sessionEv,    \* the last session event: start, login, logout or 401
    sessionTok,   \* the token the last successful login returned
    ev,           \* the handler that ran last, with what it returned or showed
    now,          \* Date.now(), in milliseconds
    tz,           \* the browser's time zone: local time minus UTC, in milliseconds
    selectedDate, \* Map state: selectedDate
    driverLocations, \* Map state: driverLocations, driver id -> logs
    deliveries,   \* page state: deliveries
    page,         \* the page component that is mounted
    loading,      \* page state: loading
    pending,      \* the page's requests awaiting their response, a bag
    selectedDelivery,  \* page state: selectedDelivery
    showDetailModal,   \* DeliveryStatus state: showDetailModal
    drivers,      \* page state: drivers, the ids in the order of the response
    showModal,    \* page state: showModal, the form and view modal
    modalMode,    \* page state: modalMode
    showAssignModal,   \* page state: showAssignModal
    selectedDriver,    \* DeliveryPoints selectedDriverId, Assignments selectedDriver
    selectedDeliveries, \* Assignments state: selectedDeliveries
    formItems,    \* DeliveryPoints state: formData.items, their number
    itemInput,    \* DeliveryPoints state: itemInput
    autoRefresh,  \* Map state: autoRefresh
    visibleDrivers,    \* Map state: visibleDrivers, a Set of driver ids
    timers,       \* the number of interval timers of the window that are active
    interval,     \* Map polling effect: whether its run holds an interval
    deliveryImages,    \* DeliveryStatus state: deliveryImages
    loadingImages,     \* DeliveryStatus state: loadingImages
    stats,        \* Dashboard state: stats
    recentActivity,    \* Dashboard state: recentActivity
    visibilityChanged, \* Map: the user has changed visibleDrivers since the mount
    lastUpdate,   \* Map state: lastUpdate
    formData,     \* Drivers state: formData
    searchTerm,   \* page state: searchTerm, a string as its characters
    statusFilter  \* page state: statusFilter

authVars == <<lsToken, lsUser, user, path, navPending, inflight,
              sentSince, sessionEv, sessionTok>>

statusVars == <<now, tz, selectedDate, driverLocations>>

mapVars == <<autoRefresh, visibleDrivers, timers, interval, visibilityChanged,
             lastUpdate>>

uiVars == <<drivers, showModal, modalMode, showAssignModal, selectedDriver,
            selectedDeliveries, formItems, itemInput, mapVars>>

imageVars == <<deliveryImages, loadingImages>>

formVars == <<formData, searchTerm, statusFilter>>

dashVars == <<stats, recentActivity>>

pageVars == <<deliveries, page, loading, pending, selectedDelivery,
              showDetailModal, uiVars, imageVars, dashVars, formVars>>

vars == <<authVars, ev, statusVars, pageVars>>

\* the variables the session model leaves alone
notAuth == <<statusVars, pageVars>>

\* the variables the time and status model leaves alone
notStatus == <<authVars, deliveries, page, loading, pending, selectedDelivery,
               showDetailModal, uiVars, imageVars, dashVars, formVars>>

\* the session while another part of the program is the one under study
AuthIdle ==
    /\ lsToken = "t1"
    /\ lsUser = "u1"
    /\ user = "u1"
    /\ path = "/dashboard"
    /\ navPending = FALSE
    /\ inflight = [s \in 1..MaxInFlight |-> [kind |-> "idle", auth |-> [scheme |-> "none", cred |-> "null"]]]
    /\ sentSince = [scheme |-> "nothing", cred |-> "null"]
    /\ sessionEv = "start"
    /\ sessionTok = "null"

\* the Map inputs and the page state while another part of the program is
\* the one under study
StatusIdle ==
    /\ now = 0
    /\ tz = 0
    /\ selectedDate = [text |-> "", day |-> 0]
    /\ driverLocations = <<>>

\* useState of Drivers formData
EmptyForm == [fullname |-> "", username |-> "", password |-> "", phone |-> ""]

\* new Date(): the time, and the call that made the Date object
NewDate(site) == [time |-> now, site |-> site]

\* the useState initial values of the pages' modals and forms
UiIdle ==
    /\ drivers = <<>>
    /\ showModal = FALSE
    /\ modalMode = "add"
    /\ showAssignModal = FALSE
    /\ selectedDriver = "null"
    /\ selectedDeliveries = <<>>
    /\ formItems = 0
    /\ itemInput = [name |-> "", quantity |-> ""]
    /\ autoRefresh = TRUE
    /\ visibleDrivers = {}
    /\ timers = 0
    /\ interval = FALSE
    /\ visibilityChanged = FALSE
    /\ lastUpdate = NewDate("useState")
    /\ formData = EmptyForm
    /\ searchTerm = <<>>
    /\ statusFilter = "all"
    /\ deliveryImages = [of |-> 0]
    /\ loadingImages = FALSE
    /\ stats = [totalDrivers |-> 0, onlineDrivers |-> 0, activeDeliveries |-> 0,
                totalDeliveryPoints |-> 0, completedToday |-> 0,
                pendingDeliveries |-> 0]
    /\ recentActivity = <<>>

PagesIdle ==
    /\ deliveries = <<>>
    /\ page = "none"
    /\ loading = FALSE
    /\ pending = EmptyBag
    /\ selectedDelivery = [id |-> 0, status |-> "null", assignedDriverId |-> "null", items |-> 0]
    /\ showDetailModal = FALSE
    /\ UiIdle

NothingSent == [scheme |-> "nothing", cred |-> Null]

\* utils/auth ---------------------------------------------------------------
\* setAuthToken(token): the token goes to local storage under 'token'
setAuthToken(token) == token

\* setUser(user): the user goes to local storage under 'user'
setUser(u) == u

\* getUser(): the stored user, null when there is none
getUser == lsUser

\* isAuthenticated(): whether a token is stored
isAuthenticated == Truthy(lsToken)

\* logout(): both items are removed
logoutUtil == [token |-> Null, user |-> Null]

\* services/api ---------------------------------------------------------------
\* the request interceptor: the header it gives a request, from the stored token
RequestInterceptorBug(token) == Bearer(token)
RequestInterceptor(token) ==
    IF Truthy(token) THEN Bearer(token) ELSE NoHeader

\* the response interceptor's error handler: local storage and location after
\* it ran; the error is rejected to the caller in every case
ResponseInterceptorBug(error, store) ==
    IF error.hasResponse
    THEN [token |-> Null, user |-> Null, path |-> "/login", nav |-> TRUE,
          rejected |-> TRUE]
    ELSE [token |-> store.token, user |-> store.user, path |-> store.path,
          nav |-> store.nav, rejected |-> TRUE]
ResponseInterceptor(error, store) ==
    IF StatusOf(error) = 401
    THEN [token |-> Null, user |-> Null, path |-> "/login", nav |-> TRUE,
          rejected |-> TRUE]
    ELSE [token |-> store.token, user |-> store.user, path |-> store.path,
          nav |-> store.nav, rejected |-> TRUE]

Store == [token |-> lsToken, user |-> lsUser, path |-> path, nav |-> navPending]

\* the session as it is before a handler runs
Pre == [token |-> lsToken, lsUser |-> lsUser, user |-> user, path |-> path]

\* AuthContext ---------------------------------------------------------------
\* the initial value of the user state
InitialUserBug(storedUser, authenticated) == storedUser
InitialUser(storedUser, authenticated) ==
    IF Truthy(storedUser) /\ authenticated THEN storedUser ELSE Null

\* the provider's value isAuthenticated: !!user
ctxIsAuthenticated == Truthy(user)

\* the value login returns when the request failed
LoginFailure(error) ==
    [success |-> FALSE, message |-> OrElse(MessageOf(error), "Login failed")]

FreeSlots == {s \in 1..MaxInFlight : inflight[s] = Idle}

Send(kind) ==
    /\ FreeSlots # {}
    /\ LET s == CHOOSE x \in FreeSlots : \A y \in FreeSlots : x <= y
           h == RequestInterceptor(lsToken)
       IN /\ inflight' = [inflight EXCEPT ![s] = [kind |-> kind, auth |-> h]]
          /\ sentSince' = h
          /\ ev' = [op |-> "send", kind |-> kind, auth |-> h]
    /\ UNCHANGED <<lsToken, lsUser, user, path, navPending, sessionEv, sessionTok>>
    /\ UNCHANGED notAuth

\* login(username, password) up to its await: the request leaves
LoginSend == Send("login")

\* any call of driversAPI, deliveriesAPI or locationsAPI: the request leaves
ApiSend == Send("api")

\* login after its await, the request fulfilled with {token, user}
LoginFulfilled(s, token, u) ==
    /\ inflight[s].kind = "login"
    /\ lsToken' = setAuthToken(token)
    /\ lsUser' = setUser(u)
    /\ user' = u
    /\ inflight' = [inflight EXCEPT ![s] = Idle]
    /\ sentSince' = NothingSent
    /\ sessionEv' = "login"
    /\ sessionTok' = token
    /\ ev' = [op |-> "login", result |-> [success |-> TRUE, message |-> Null],
              token |-> token, user |-> u,
              pre |-> Pre, rejected |-> FALSE,
              error |-> NoResponse]
    /\ UNCHANGED <<path, navPending>>
    /\ UNCHANGED notAuth

\* what a rejected response does to the session bookkeeping
SessionAfter(error) ==
    /\ sentSince' = IF StatusOf(error) = 401 THEN NothingSent ELSE sentSince
    /\ sessionEv' = IF StatusOf(error) = 401 THEN "401" ELSE sessionEv
    /\ UNCHANGED sessionTok

\* login after its await, the request rejected: the response interceptor runs,
\* then login's catch
LoginRejected(s, error) ==
    /\ inflight[s].kind = "login"
    /\ LET r == ResponseInterceptor(error, Store)
       IN /\ lsToken' = r.token
          /\ lsUser' = r.user
          /\ path' = r.path
          /\ navPending' = r.nav
          /\ ev' = [op |-> "login", result |-> LoginFailure(error),
                    token |-> Null, user |-> Null,
                    pre |-> Pre, rejected |-> r.rejected,
                    error |-> error]
    /\ inflight' = [inflight EXCEPT ![s] = Idle]
    /\ SessionAfter(error)
    /\ UNCHANGED user
    /\ UNCHANGED notAuth

\* a page's request fulfilled: the response interceptor passes it through
ApiFulfilled(s) ==
    /\ inflight[s].kind = "api"
    /\ inflight' = [inflight EXCEPT ![s] = Idle]
    /\ ev' = [op |-> "apiFulfilled"]
    /\ UNCHANGED <<lsToken, lsUser, user, path, navPending, sentSince,
                   sessionEv, sessionTok>>
    /\ UNCHANGED notAuth

\* a page's request rejected: the response interceptor runs and rejects the
\* error to the caller
ApiRejected(s, error) ==
    /\ inflight[s].kind = "api"
    /\ LET r == ResponseInterceptor(error, Store)
       IN /\ lsToken' = r.token
          /\ lsUser' = r.user
          /\ path' = r.path
          /\ navPending' = r.nav
          /\ ev' = [op |-> "apiRejected", error |-> error,
                    rejected |-> r.rejected,
                    pre |-> Pre]
    /\ inflight' = [inflight EXCEPT ![s] = Idle]
    /\ SessionAfter(error)
    /\ UNCHANGED user
    /\ UNCHANGED notAuth

\* App ------------------------------------------------------------------------
\* the paths of the six pages routed inside ProtectedRoute and Layout
PagePaths == {"/dashboard", "/drivers", "/delivery-points", "/assignments",
              "/deliveries", "/map"}

\* the paths a navigation may ask for: the pages, /login, the root, paths
\* that no page has, and a page's path in another case
PathInputs == PagePaths \cup {"/login", "/", "/nowhere", "/login/x", "/Dashboard"}

\* the path a route pattern is compared with: matching ignores case
Canon(p) == IF p = "/Dashboard" THEN "/dashboard" ELSE p

\* the inner Routes: a page's path renders the page, '/' and every other
\* path render Navigate to /dashboard
InnerRoutesBug(p) == p
InnerRoutes(p) == IF Canon(p) \in PagePaths THEN p ELSE "/dashboard"

\* components/ProtectedRoute: its children when the context is
\* authenticated, Navigate to /login otherwise
ProtectedRoute(authenticated, children) ==
    IF authenticated THEN children ELSE "/login"

\* App's Routes: the path the router rests on when asked for p
App(p, authenticated) ==
    IF Canon(p) = "/login" THEN p
    ELSE ProtectedRoute(authenticated, InnerRoutes(p))

\* Layout.handleLogout: logout() of the context, then navigate('/login')
LogoutBug == [token |-> Null, user |-> lsUser]
Logout == logoutUtil

handleLogout ==
    /\ lsToken' = Logout.token
    /\ lsUser' = Logout.user
    /\ user' = Null
    /\ path' = "/login"
    /\ sentSince' = NothingSent
    /\ sessionEv' = "logout"
    /\ ev' = [op |-> "logout"]
    /\ UNCHANGED <<navPending, inflight, sessionTok>>
    /\ UNCHANGED notAuth

\* the user opens a path of the application, by a link or the address bar
Navigate(p) ==
    /\ path # p
    /\ path' = App(p, ctxIsAuthenticated)
    /\ ev' = [op |-> "navigate", to |-> p]
    /\ UNCHANGED <<lsToken, lsUser, user, navPending, inflight, sentSince,
                   sessionEv, sessionTok>>
    /\ UNCHANGED notAuth

\* the document loads (after window.location.href was assigned, or a reload by
\* the user): every pending callback is gone and AuthProvider mounts afresh
PageLoad ==
    /\ user' = InitialUser(getUser, isAuthenticated)
    /\ path' = App(path, Truthy(InitialUser(getUser, isAuthenticated)))
    /\ navPending' = FALSE
    /\ inflight' = [s \in 1..MaxInFlight |-> Idle]
    /\ ev' = [op |-> "start"]
    /\ UNCHANGED <<lsToken, lsUser, sentSince, sessionEv, sessionTok>>
    /\ UNCHANGED notAuth

AuthInit ==
    /\ lsToken \in Tokens \cup {Null}
    /\ lsUser \in Users \cup {Null}
    /\ user = InitialUser(getUser, isAuthenticated)
    /\ path \in {App(p, ctxIsAuthenticated) : p \in {"/login", "/dashboard"}}
    /\ navPending = FALSE
    /\ inflight = [s \in 1..MaxInFlight |-> Idle]
    /\ sentSince = NothingSent
    /\ sessionEv = "start"
    /\ sessionTok = Null
    /\ ev = [op |-> "start"]
    /\ StatusIdle
    /\ PagesIdle

AuthNext ==
    \/ LoginSend
    \/ ApiSend
    \/ \E s \in 1..MaxInFlight, t \in Tokens, u \in Users : LoginFulfilled(s, t, u)
    \/ \E s \in 1..MaxInFlight, e \in Errors : LoginRejected(s, e)
    \/ \E s \in 1..MaxInFlight : ApiFulfilled(s)
    \/ \E s \in 1..MaxInFlight, e \in Errors : ApiRejected(s, e)
    \/ handleLogout
    \/ \E p \in {"/login", "/dashboard"} : Navigate(p)
    \/ PageLoad

SpecAuth == AuthInit /\ [][AuthNext]_vars

\* the router: navigation to every path, with the logins, logouts and
\* document loads that change what ProtectedRoute lets through
RoutesNext ==
    \/ LoginSend
    \/ \E s \in 1..MaxInFlight, t \in Tokens, u \in Users : LoginFulfilled(s, t, u)
    \/ \E s \in 1..MaxInFlight, e \in Errors : LoginRejected(s, e)
    \/ handleLogout
    \/ \E p \in PathInputs : Navigate(p)
    \/ PageLoad

SpecRoutes == AuthInit /\ [][RoutesNext]_vars

(***************************************************************************)
(* Time stamps and the five-minute recency tests (Map.jsx, Dashboard).     *)
(***************************************************************************)
\* a JavaScript number: a value, or NaN
Num(v) == [nan |-> FALSE, v |-> v]
NaN == [nan |-> TRUE, v |-> 0]

\* a < b, a >= b and a - b on JavaScript numbers: a comparison with NaN is false
Less(a, b) == ~a.nan /\ ~b.nan /\ a.v < b.v
AtLeast(a, b) == ~a.nan /\ ~b.nan /\ a.v >= b.v
Minus(a, b) == IF a.nan \/ b.nan THEN NaN ELSE Num(a.v - b.v)

DayMs == 24 * 60 * 60 * 1000
HourMs == 60 * 60 * 1000

\* 5 * 60 * 1000
fiveMinutes == 5 * 60 * 1000

\* The shapes a timestamp arrives in: a Firestore object {_seconds}, a number
\* of milliseconds, a date string (parseable, unparseable or empty), or
\* nothing at all.
Firestore(secs) == [kind |-> "firestore", v |-> secs]
Millis(ms) == [kind |-> "number", v |-> ms]
DateString(ms) == [kind |-> "string", v |-> ms]
BadString == [kind |-> "badstring", v |-> 0]
EmptyString == [kind |-> "emptystring", v |-> 0]
Missing == [kind |-> "missing", v |-> 0]
NullTs == [kind |-> "null", v |-> 0]

\* !!timestamp
TruthyTs(ts) ==
    CASE ts.kind = "firestore" -> TRUE
      [] ts.kind = "number" -> ts.v # 0
      [] ts.kind = "string" -> TRUE
      [] ts.kind = "badstring" -> TRUE
      [] OTHER -> FALSE

\* !!timestamp?._seconds
HasSeconds(ts) == ts.kind = "firestore" /\ ts.v # 0

\* new Date(timestamp).getTime()
DateTime(ts) ==
    CASE ts.kind = "number" -> Num(ts.v)
      [] ts.kind = "string" -> Num(ts.v)
      [] ts.kind = "null" -> Num(0)
      [] OTHER -> NaN

\* Map.isLocationRecent(timestamp)
isLocationRecent(timestamp) ==
    IF ~TruthyTs(timestamp) THEN FALSE
    ELSE LET locationTime ==
                 IF HasSeconds(timestamp) THEN Num(timestamp.v * 1000)
                 ELSE IF timestamp.kind = "number" THEN Num(timestamp.v)
                 ELSE DateTime(timestamp)
         IN Less(Minus(Num(now), locationTime), Num(fiveMinutes))

\* Dashboard.fetchDashboardData: the filter that counts the online drivers
dashboardRecentBug(timestamp) ==
    LET fiveMinutesAgo == Num(now - fiveMinutes)
        t == IF HasSeconds(timestamp) THEN Num(timestamp.v)
             ELSE DateTime(timestamp)
    IN Less(fiveMinutesAgo, t)
dashboardRecent(timestamp) ==
    LET fiveMinutesAgo == Num(now - fiveMinutes)
        t == IF HasSeconds(timestamp) THEN Num(timestamp.v * 1000)
             ELSE DateTime(timestamp)
    IN Less(fiveMinutesAgo, t)

\* the milliseconds a timestamp stands for, NaN when it stands for none
TimeOf(ts) ==
    CASE ts.kind = "firestore" -> Num(ts.v * 1000)
      [] ts.kind = "number" -> Num(ts.v)
      [] ts.kind = "string" -> Num(ts.v)
      [] OTHER -> NaN

(***************************************************************************)
(* Map: the logs of the selected date and the driver's status.             *)
(***************************************************************************)
EmptyDate == [text |-> "", day |-> 0]
Ymd(day) == [text |-> "ymd", day |-> day]

\* date.setHours(0, 0, 0, 0): the local midnight at or before an instant
LocalMidnight(ms) == ((ms + tz) \div DayMs) * DayMs - tz

\* Map.filterLocationsByDate(logs, date)
filterLocationsByDate(logs, date) ==
    IF date.text = "" THEN logs
    ELSE LET selectedDateObj == LocalMidnight(date.day * DayMs)
             nextDay == selectedDateObj + DayMs
             logDate(log) ==
                 IF HasSeconds(log.timestamp) THEN Num(log.timestamp.v * 1000)
                 ELSE DateTime(log.timestamp)
             isInRange(log) ==
                 /\ AtLeast(logDate(log), Num(selectedDateObj))
                 /\ Less(logDate(log), Num(nextDay))
         IN SelectSeq(logs, isInRange)

NoLog == [timestamp |-> Missing, none |-> TRUE]
Log(ts) == [timestamp |-> ts, none |-> FALSE]

\* Map.getLatestLocation(driverId); NoLog stands for null
getLatestLocation(driverId) ==
    IF driverId \notin DOMAIN driverLocations
       \/ Len(driverLocations[driverId]) = 0
    THEN NoLog
    ELSE LET filteredLogs ==
                 filterLocationsByDate(driverLocations[driverId], selectedDate)
         IN IF Len(filteredLogs) > 0 THEN filteredLogs[1] ELSE NoLog

\* deliveries.some(...) of Map.getDriverStatus
hasActiveDeliveries(driverId) ==
    \E i \in 1..Len(deliveries) :
        /\ deliveries[i].assignedDriverId = driverId
        /\ deliveries[i].status = "assigned"

\* Map.getDriverStatus(driver)
getDriverStatus(driverId) ==
    LET latestLocation == getLatestLocation(driverId)
    IN IF latestLocation.none THEN "offline"
       ELSE IF ~isLocationRecent(latestLocation.timestamp) THEN "offline"
       ELSE IF hasActiveDeliveries(driverId) THEN "delivering"
       ELSE "online"


(***************************************************************************)
(* The inputs of the recency tests and of getDriverStatus.                 *)
(***************************************************************************)
\* number of times the clock advances
MaxTicks == 1
\* number of logs of a driver
MaxLogs == 2
\* number of deliveries in a list
MaxDeliveries == 2

\* the time the pages are opened at: noon (UTC) of day 2
BaseNow == 2 * DayMs + 12 * HourMs
TickMs == HourMs \div 3600

TimeZones == {7 * HourMs, 0 - 5 * HourMs}
Dates == {EmptyDate, Ymd(1), Ymd(2)}
DriverIds == {"d1", "d2"}

\* every shape of timestamp, on both sides of the five-minute threshold
TimestampInputs ==
    {Millis(BaseNow - fiveMinutes - 1), Millis(BaseNow - fiveMinutes),
     Millis(BaseNow - fiveMinutes + 1), Millis(BaseNow + 60000), Millis(0),
     Firestore((BaseNow - fiveMinutes) \div 1000),
     Firestore((BaseNow - 60000) \div 1000), Firestore(0),
     DateString(BaseNow - fiveMinutes), DateString(BaseNow - 60000),
     DateString(BaseNow + TickMs - fiveMinutes),
     BadString, EmptyString, Missing, NullTs}

\* the logs of a driver: a ping one minute old, one exactly five minutes old,
\* one ten minutes old and one of the day before
LogInputs ==
    {Log(Millis(BaseNow - 60000)),
     Log(Firestore((BaseNow - fiveMinutes) \div 1000)),
     Log(Millis(BaseNow - 2 * fiveMinutes)),
     Log(Firestore((BaseNow - DayMs) \div 1000))}

SeqsUpTo(S, n) == UNION {[1..k -> S] : k \in 0..n}

LocationInputs ==
    {<<>>} \cup {[d \in {"d1"} |-> logs] : logs \in SeqsUpTo(LogInputs, MaxLogs)}

\* a delivery of the backend: its id, status, driver and number of items
Delivery(id, status, driverId) ==
    [id |-> id, status |-> status, assignedDriverId |-> driverId, items |-> 1]

StatusDeliveryInputs ==
    {Delivery(1, "assigned", "d1"), Delivery(1, "completed", "d1"),
     Delivery(1, "assigned", "d2"), Delivery(1, "pending", Null)}

\* the clock advances
Tick ==
    /\ now < BaseNow + MaxTicks * TickMs
    /\ now' = now + TickMs
    /\ ev' = [op |-> "tick"]
    /\ UNCHANGED <<tz, selectedDate, driverLocations>>
    /\ UNCHANGED notStatus

\* the date input's onChange: setSelectedDate(e.target.value)
setSelectedDate(date) ==
    /\ date # selectedDate
    /\ selectedDate' = date
    /\ ev' = [op |-> "setSelectedDate"]
    /\ UNCHANGED <<now, tz, driverLocations>>
    /\ UNCHANGED notStatus

StatusInit ==
    /\ now = BaseNow
    /\ tz \in TimeZones
    /\ selectedDate \in Dates
    /\ driverLocations \in LocationInputs
    /\ deliveries \in SeqsUpTo(StatusDeliveryInputs, MaxDeliveries)
    /\ ev = [op |-> "start"]
    /\ AuthIdle
    /\ page = "none"
    /\ loading = FALSE
    /\ pending = EmptyBag
    /\ selectedDelivery = [id |-> 0, status |-> "null", assignedDriverId |-> "null", items |-> 0]
    /\ showDetailModal = FALSE
    /\ UiIdle

StatusNext ==
    \/ Tick
    \/ \E date \in Dates : setSelectedDate(date)

SpecStatus == StatusInit /\ [][StatusNext]_vars


(***************************************************************************)
(* The pages: requests, responses and what the user is shown.              *)
(***************************************************************************)
\* number of requests of a page that may await their response together
MaxPending == 1

Statuses == {"pending", "assigned", "completed", "approved"}

\* the lists the backend may answer a deliveries getAll with: none, one
\* delivery in each status, the same two deliveries before and after an
\* approval, a rejection, an assignment, and deliveries of two drivers
DeliveryListInputs ==
    {<<>>,
     <<Delivery(1, "pending", Null)>>,
     <<Delivery(1, "assigned", "d1")>>,
     <<Delivery(1, "completed", "d1")>>,
     <<Delivery(1, "approved", "d1")>>,
     <<Delivery(1, "completed", "d1"), Delivery(2, "pending", Null)>>,
     <<Delivery(1, "approved", "d1"), Delivery(2, "pending", Null)>>,
     <<Delivery(1, "pending", Null), Delivery(2, "pending", Null)>>,
     <<Delivery(1, "assigned", "d1"), Delivery(2, "completed", "d2")>>}

\* the lists the backend may answer a drivers getAll with
DriverListInputs == {<<>>, <<"d1">>, <<"d1", "d2">>}

\* selectedDelivery = null
NoDelivery == [Delivery(0, Null, Null) EXCEPT !.items = 0]

\* the errors a page's request is rejected with; a 401, which ends the
\* session, is followed in the session model
PageErrors ==
    {NoResponse,
     [hasResponse |-> TRUE, status |-> 500, message |-> Null],
     [hasResponse |-> TRUE, status |-> 400, message |-> "Bad request"]}

\* a request awaiting its response, with what its continuation has captured:
\* the delivery it is about and whether the detail modal shows that delivery
Request(op, id, closes) ==
    [op |-> op, id |-> id, closes |-> closes, driver |-> Null,
     list |-> <<>>, ids |-> {}, done |-> {}, failed |-> FALSE, old |-> FALSE,
     overtaken |-> {}]

\* what a handler did: the outcome of the request it continued ("fulfilled",
\* "rejected") or of its dialogs ("sent", "declined"), the alert it showed,
\* whether it logged to the console, the requests it sent, whether it started
\* a re-fetch of the list, the delivery it was called with, the deliveries
\* whose status its requests have changed, whether the user accepted its
\* confirm dialog, and the state of the page before a handler that declined
Did(op) ==
    [op |-> op, outcome |-> "none", alert |-> Null, logged |-> FALSE,
     sent |-> {}, refetch |-> FALSE, arg |-> NoDelivery,
     succeeded |-> {}, confirmed |-> FALSE, pre |-> <<>>]

\* the state of the mounted page
PageState == pageVars

\* the bag of pending requests with one more, and with one settled
Add(bag, r) == bag (+) SetToBag({r})
Remove(bag, r) == bag (-) SetToBag({r})
Pending == BagToSet(pending)
NPending == BagCardinality(pending)

\* the rows of a list
Rows(list) == {list[i] : i \in 1..Len(list)}

\* the variables the pages leave alone
notPages == <<authVars, statusVars, dashVars, formVars>>

(***************************************************************************)
(* DeliveryStatus.                                                         *)
(***************************************************************************)
\* DeliveryStatus.fetchDeliveries after its await
DSFetchFulfilled(r, list) ==
    /\ page = "DeliveryStatus"
    /\ r.op = "fetchDeliveries"
    /\ deliveries' = list
    /\ loading' = FALSE
    /\ pending' = Remove(pending, r)
    /\ ev' = [Did("fetchDeliveries") EXCEPT !.outcome = "fulfilled"]
    /\ UNCHANGED <<page, selectedDelivery, showDetailModal>>
    /\ UNCHANGED uiVars
    /\ UNCHANGED imageVars
    /\ UNCHANGED notPages

DSFetchRejected(r, error) ==
    /\ page = "DeliveryStatus"
    /\ r.op = "fetchDeliveries"
    /\ loading' = FALSE
    /\ pending' = Remove(pending, r)
    /\ ev' = [Did("fetchDeliveries") EXCEPT !.outcome = "rejected",
                 !.logged = TRUE, !.alert = "Failed to load deliveries"]
    /\ UNCHANGED <<page, deliveries, selectedDelivery, showDetailModal>>
    /\ UNCHANGED uiVars
    /\ UNCHANGED imageVars
    /\ UNCHANGED notPages

\* DeliveryStatus.handleViewDetails up to its await; a delivery without proof
\* of delivery opens the modal at once
handleViewDetails(delivery) ==
    /\ page = "DeliveryStatus"
    /\ ~showDetailModal
    /\ ~loading
    /\ delivery \in Rows(deliveries)
    /\ selectedDelivery' = delivery
    /\ IF delivery.status \in {"completed", "approved"}
       THEN /\ NPending < MaxPending
            /\ pending' = Add(pending, Request("loadDeliveryImages", delivery.id, FALSE))
            /\ loadingImages' = TRUE
            /\ ev' = [Did("handleViewDetails") EXCEPT !.outcome = "sent",
                         !.sent = {[kind |-> "getById", id |-> delivery.id]},
                         !.arg = delivery]
            /\ UNCHANGED showDetailModal
       ELSE /\ showDetailModal' = TRUE
            /\ ev' = [Did("handleViewDetails") EXCEPT !.arg = delivery]
            /\ UNCHANGED <<pending, loadingImages>>
    /\ UNCHANGED <<page, deliveries, loading, deliveryImages>>
    /\ UNCHANGED uiVars
    /\ UNCHANGED notPages

\* the images of response.data.proofOfDelivery, by the delivery they are of
ImagesOf(deliveryId) == [of |-> deliveryId]

\* loadDeliveryImages after its await, then the rest of handleViewDetails
DSImagesSettled(r, ok) ==
    /\ page = "DeliveryStatus"
    /\ r.op = "loadDeliveryImages"
    /\ pending' = Remove(pending, r)
    /\ deliveryImages' = IF ok THEN ImagesOf(r.id) ELSE deliveryImages
    /\ loadingImages' = FALSE
    /\ showDetailModal' = TRUE
    /\ ev' = IF ok
             THEN [Did("loadDeliveryImages") EXCEPT !.outcome = "fulfilled"]
             ELSE [Did("loadDeliveryImages") EXCEPT !.outcome = "rejected",
                      !.logged = TRUE]
    /\ UNCHANGED <<page, deliveries, loading, selectedDelivery>>
    /\ UNCHANGED uiVars
    /\ UNCHANGED notPages

\* the close button of the detail modal
closeDetailModal ==
    /\ page = "DeliveryStatus"
    /\ showDetailModal
    /\ showDetailModal' = FALSE
    /\ ev' = Did("closeDetailModal")
    /\ UNCHANGED <<page, deliveries, loading, pending, selectedDelivery>>
    /\ UNCHANGED uiVars
    /\ UNCHANGED imageVars
    /\ UNCHANGED notPages

\* the deliveries DeliveryStatus shows an Approve and a Reject button for: the
\* completed rows of the table, or the delivery of the open detail modal
DSActionTargetsBug ==
    IF showDetailModal
    THEN {selectedDelivery} \ {NoDelivery}
    ELSE {d \in Rows(deliveries) : ~loading /\ d.status \in {"assigned", "completed"}}
DSActionTargets ==
    IF showDetailModal
    THEN {d \in {selectedDelivery} : d.status = "completed"}
    ELSE {d \in Rows(deliveries) : ~loading /\ d.status = "completed"}

\* DeliveryStatus.handleApprove up to its await
handleApprove(delivery, confirmed) ==
    /\ page = "DeliveryStatus"
    /\ delivery \in DSActionTargets
    /\ IF confirmed
       THEN /\ NPending < MaxPending
            /\ pending' = Add(pending,
                   Request("approve", delivery.id, selectedDelivery.id = delivery.id))
            /\ ev' = [Did("handleApprove") EXCEPT !.outcome = "sent", !.confirmed = TRUE,
                         !.sent = {[kind |-> "approve", id |-> delivery.id]},
                         !.arg = delivery, !.pre = PageState]
       ELSE /\ ev' = [Did("handleApprove") EXCEPT !.outcome = "declined", !.pre = PageState]
            /\ UNCHANGED pending
    /\ UNCHANGED <<page, deliveries, loading, selectedDelivery, showDetailModal>>
    /\ UNCHANGED uiVars
    /\ UNCHANGED imageVars
    /\ UNCHANGED notPages

\* fetchDeliveries up to its await, called by a continuation: setLoading(true)
\* and the getAll request, which takes the place of the request just settled
Refetch(r, op) == Add(Remove(pending, r), Request(op, 0, FALSE))

\* handleApprove and handleReject after their await
DSChangeFulfilled(r) ==
    /\ page = "DeliveryStatus"
    /\ r.op \in {"approve", "reject"}
    /\ pending' = Refetch(r, "fetchDeliveries")
    /\ loading' = TRUE
    /\ showDetailModal' = IF r.closes THEN FALSE ELSE showDetailModal
    /\ ev' = [Did(r.op) EXCEPT !.outcome = "fulfilled",
                 !.alert = IF r.op = "approve"
                           THEN "Delivery approved successfully!"
                           ELSE "Delivery rejected and set back to pending",
                 !.sent = {[kind |-> "getAll", id |-> 0]},
                 !.refetch = TRUE, !.succeeded = {r.id}]
    /\ UNCHANGED <<page, deliveries, selectedDelivery>>
    /\ UNCHANGED uiVars
    /\ UNCHANGED imageVars
    /\ UNCHANGED notPages

DSChangeRejected(r, error) ==
    /\ page = "DeliveryStatus"
    /\ r.op \in {"approve", "reject"}
    /\ pending' = Remove(pending, r)
    /\ ev' = [Did(r.op) EXCEPT !.outcome = "rejected", !.logged = TRUE,
                 !.alert = IF r.op = "approve"
                           THEN OrElse(MessageOf(error), "Failed to approve delivery")
                           ELSE "Failed to reject delivery"]
    /\ UNCHANGED <<page, deliveries, loading, selectedDelivery, showDetailModal>>
    /\ UNCHANGED uiVars
    /\ UNCHANGED imageVars
    /\ UNCHANGED notPages

\* what the user answers to prompt(): null (cancel), '' or a text
PromptAnswers == {Null, "", "damaged"}

\* the data handleReject sends with deliveriesAPI.update
RejectDataBug(reason) ==
    [status |-> "pending", assignedDriverId |-> Null, driverName |-> Null,
     completedAt |-> Null, rejectionReason |-> reason]
RejectData(reason) ==
    [status |-> "pending", assignedDriverId |-> Null, driverName |-> Null,
     completedAt |-> Null,
     rejectionReason |-> OrElse(reason, "No reason provided")]

\* DeliveryStatus.handleReject up to its await
handleReject(delivery, reason, confirmed) ==
    /\ page = "DeliveryStatus"
    /\ delivery \in DSActionTargets
    /\ IF reason # Null /\ confirmed
       THEN /\ NPending < MaxPending
            /\ pending' = Add(pending,
                   Request("reject", delivery.id, selectedDelivery.id = delivery.id))
            /\ ev' = [reason |-> reason, data |-> RejectData(reason)] @@
                     [Did("handleReject") EXCEPT !.outcome = "sent", !.confirmed = TRUE,
                         !.sent = {[kind |-> "update", id |-> delivery.id]},
                         !.arg = delivery, !.pre = PageState]
       ELSE /\ ev' = [Did("handleReject") EXCEPT !.outcome = "declined", !.pre = PageState]
            /\ UNCHANGED pending
    /\ UNCHANGED <<page, deliveries, loading, selectedDelivery, showDetailModal>>
    /\ UNCHANGED uiVars
    /\ UNCHANGED imageVars
    /\ UNCHANGED notPages

DeliveryStatusInit ==
    /\ page = "DeliveryStatus"
    /\ deliveries = <<>>
    /\ loading = TRUE
    /\ pending = SetToBag({Request("fetchDeliveries", 0, FALSE)})
    /\ selectedDelivery = NoDelivery
    /\ showDetailModal = FALSE
    /\ UiIdle

DeliveryStatusNext ==
    \/ \E r \in Pending, list \in DeliveryListInputs : DSFetchFulfilled(r, list)
    \/ \E r \in Pending, e \in PageErrors : DSFetchRejected(r, e)
    \/ \E d \in Rows(deliveries) : handleViewDetails(d)
    \/ \E r \in Pending, ok \in BOOLEAN : DSImagesSettled(r, ok)
    \/ closeDetailModal
    \/ \E d \in DSActionTargets, c \in BOOLEAN : handleApprove(d, c)
    \/ \E d \in DSActionTargets, a \in PromptAnswers, c \in BOOLEAN : handleReject(d, a, c)
    \/ \E r \in Pending : DSChangeFulfilled(r)
    \/ \E r \in Pending, e \in PageErrors : DSChangeRejected(r, e)

(***************************************************************************)
(* DeliveryPoints.                                                         *)
(***************************************************************************)
MaxItems == 1

\* the lists the backend may answer the getAll of DeliveryPoints with: a
\* delivery without items, and one delivery in each status
DPDeliveryListInputs ==
    {<<Delivery(1, "completed", "d1"),
       [Delivery(2, "pending", Null) EXCEPT !.items = 0]>>,
     <<Delivery(1, "approved", "d1"), Delivery(2, "assigned", "d1")>>}

DPDriverListInputs == {<<"d1">>}

\* the variables of the other pages
notDeliveryPoints == <<notPages, showDetailModal, selectedDeliveries, mapVars,
                       imageVars>>

\* the cards and the Add button are under the overlay of an open modal, and
\* the cards are replaced by a spinner while loading
DPCards ==
    {d \in Rows(deliveries) : ~loading /\ ~showModal /\ ~showAssignModal}

\* DeliveryPoints.fetchDeliveries after its await
DPFetchFulfilled(r, list) ==
    /\ page = "DeliveryPoints"
    /\ r.op = "fetchDeliveries"
    /\ deliveries' = list
    /\ loading' = FALSE
    /\ pending' = Remove(pending, r)
    /\ ev' = [Did("fetchDeliveries") EXCEPT !.outcome = "fulfilled"]
    /\ UNCHANGED <<page, selectedDelivery, drivers, showModal, modalMode,
                   showAssignModal, selectedDriver, formItems, itemInput>>
    /\ UNCHANGED notDeliveryPoints

DPFetchRejected(r, error) ==
    /\ page = "DeliveryPoints"
    /\ r.op = "fetchDeliveries"
    /\ loading' = FALSE
    /\ pending' = Remove(pending, r)
    /\ ev' = [Did("fetchDeliveries") EXCEPT !.outcome = "rejected",
                 !.logged = TRUE, !.alert = "Failed to load deliveries"]
    /\ UNCHANGED <<page, deliveries, selectedDelivery, drivers, showModal,
                   modalMode, showAssignModal, selectedDriver, formItems,
                   itemInput>>
    /\ UNCHANGED notDeliveryPoints

\* DeliveryPoints.fetchDrivers after its await
DPFetchDriversFulfilled(r, list) ==
    /\ page = "DeliveryPoints"
    /\ r.op = "fetchDrivers"
    /\ drivers' = list
    /\ pending' = Remove(pending, r)
    /\ ev' = [Did("fetchDrivers") EXCEPT !.outcome = "fulfilled"]
    /\ UNCHANGED <<page, deliveries, loading, selectedDelivery, showModal,
                   modalMode, showAssignModal, selectedDriver, formItems,
                   itemInput>>
    /\ UNCHANGED notDeliveryPoints

DPFetchDriversRejected(r, error) ==
    /\ page = "DeliveryPoints"
    /\ r.op = "fetchDrivers"
    /\ pending' = Remove(pending, r)
    /\ ev' = [Did("fetchDrivers") EXCEPT !.outcome = "rejected",
                 !.logged = TRUE]
    /\ UNCHANGED <<page, deliveries, loading, selectedDelivery, drivers,
                   showModal, modalMode, showAssignModal, selectedDriver,
                   formItems, itemInput>>
    /\ UNCHANGED notDeliveryPoints

handleAddDelivery ==
    /\ page = "DeliveryPoints"
    /\ ~showModal /\ ~showAssignModal
    /\ modalMode' = "add"
    /\ formItems' = 0
    /\ showModal' = TRUE
    /\ ev' = Did("handleAddDelivery")
    /\ UNCHANGED <<page, deliveries, loading, pending, selectedDelivery,
                   drivers, showAssignModal, selectedDriver, itemInput>>
    /\ UNCHANGED notDeliveryPoints

handleEditDelivery(delivery) ==
    /\ page = "DeliveryPoints"
    /\ delivery \in DPCards
    /\ modalMode' = "edit"
    /\ selectedDelivery' = delivery
    /\ formItems' = delivery.items
    /\ showModal' = TRUE
    /\ ev' = [Did("handleEditDelivery") EXCEPT !.arg = delivery]
    /\ UNCHANGED <<page, deliveries, loading, pending, drivers,
                   showAssignModal, selectedDriver, itemInput>>
    /\ UNCHANGED notDeliveryPoints

handleViewDelivery(delivery) ==
    /\ page = "DeliveryPoints"
    /\ delivery \in DPCards
    /\ modalMode' = "view"
    /\ selectedDelivery' = delivery
    /\ showModal' = TRUE
    /\ ev' = [Did("handleViewDelivery") EXCEPT !.arg = delivery]
    /\ UNCHANGED <<page, deliveries, loading, pending, drivers,
                   showAssignModal, selectedDriver, formItems, itemInput>>
    /\ UNCHANGED notDeliveryPoints

\* the X and Cancel buttons of the form and view modal
closeModal ==
    /\ page = "DeliveryPoints"
    /\ showModal
    /\ showModal' = FALSE
    /\ ev' = Did("closeModal")
    /\ UNCHANGED <<page, deliveries, loading, pending, selectedDelivery,
                   drivers, modalMode, showAssignModal, selectedDriver,
                   formItems, itemInput>>
    /\ UNCHANGED notDeliveryPoints

\* what the user types into the item's name and quantity inputs
ItemInputs ==
    {[name |-> "", quantity |-> ""], [name |-> "box", quantity |-> ""],
     [name |-> "box", quantity |-> "2"]}

\* the condition of handleAddItem: itemInput.name && itemInput.quantity
ItemCompleteBug(input) == Truthy(input.name)
ItemComplete(input) == Truthy(input.name) /\ Truthy(input.quantity)

\* the onChange of the two item inputs, which leave input in itemInput, and
\* then DeliveryPoints.handleAddItem
handleAddItem(input) ==
    /\ page = "DeliveryPoints"
    /\ showModal /\ modalMode # "view"
    /\ formItems < MaxItems
    /\ IF ItemComplete(input)
       THEN /\ formItems' = formItems + 1
            /\ itemInput' = [name |-> "", quantity |-> ""]
            /\ ev' = [input |-> input] @@
                         [Did("handleAddItem") EXCEPT !.outcome = "added"]
       ELSE /\ itemInput' = input
            /\ ev' = [input |-> input] @@ Did("handleAddItem")
            /\ UNCHANGED formItems
    /\ UNCHANGED <<page, deliveries, loading, pending, selectedDelivery,
                   drivers, showModal, modalMode, showAssignModal,
                   selectedDriver>>
    /\ UNCHANGED notDeliveryPoints

handleRemoveItem ==
    /\ page = "DeliveryPoints"
    /\ showModal /\ modalMode # "view"
    /\ formItems > 0
    /\ formItems' = formItems - 1
    /\ ev' = Did("handleRemoveItem")
    /\ UNCHANGED <<page, deliveries, loading, pending, selectedDelivery,
                   drivers, showModal, modalMode, showAssignModal,
                   selectedDriver, itemInput>>
    /\ UNCHANGED notDeliveryPoints

\* DeliveryPoints.handleSubmit up to its await; the submit button is
\* disabled while the form has no item
DPhandleSubmit ==
    /\ page = "DeliveryPoints"
    /\ showModal /\ modalMode # "view"
    /\ formItems # 0
    /\ NPending < MaxPending
    /\ LET kind == IF modalMode = "add" THEN "create" ELSE "update"
           id == IF modalMode = "add" THEN 0 ELSE selectedDelivery.id
       IN /\ pending' = Add(pending, Request(kind, id, FALSE))
          /\ ev' = [Did("handleSubmit") EXCEPT !.outcome = "sent",
                       !.sent = {[kind |-> kind, id |-> id]}]
    /\ UNCHANGED <<page, deliveries, loading, selectedDelivery, drivers,
                   showModal, modalMode, showAssignModal, selectedDriver,
                   formItems, itemInput>>
    /\ UNCHANGED notDeliveryPoints

handleDeleteDelivery(delivery, confirmed) ==
    /\ page = "DeliveryPoints"
    /\ delivery \in DPCards
    /\ IF confirmed
       THEN /\ NPending < MaxPending
            /\ pending' = Add(pending, Request("delete", delivery.id, FALSE))
            /\ ev' = [Did("handleDeleteDelivery") EXCEPT !.outcome = "sent",
                         !.sent = {[kind |-> "delete", id |-> delivery.id]},
                         !.arg = delivery]
       ELSE /\ ev' = [Did("handleDeleteDelivery") EXCEPT
                         !.outcome = "declined", !.pre = PageState]
            /\ UNCHANGED pending
    /\ UNCHANGED <<page, deliveries, loading, selectedDelivery, drivers,
                   showModal, modalMode, showAssignModal, selectedDriver,
                   formItems, itemInput>>
    /\ UNCHANGED notDeliveryPoints

\* the Assign Driver button of a pending delivery's card
handleOpenAssignModal(delivery) ==
    /\ page = "DeliveryPoints"
    /\ delivery \in DPCards
    /\ delivery.status = "pending"
    /\ selectedDelivery' = delivery
    /\ selectedDriver' = OrElse(delivery.assignedDriverId, "")
    /\ showAssignModal' = TRUE
    /\ ev' = [Did("handleOpenAssignModal") EXCEPT !.arg = delivery]
    /\ UNCHANGED <<page, deliveries, loading, pending, drivers, showModal,
                   modalMode, formItems, itemInput>>
    /\ UNCHANGED notDeliveryPoints

\* the onChange of the driver select of the assign modal
setSelectedDriverId(id) ==
    /\ page = "DeliveryPoints"
    /\ showAssignModal
    /\ id \in {""} \cup Rows(drivers)
    /\ id # selectedDriver
    /\ selectedDriver' = id
    /\ ev' = Did("setSelectedDriverId")
    /\ UNCHANGED <<page, deliveries, loading, pending, selectedDelivery,
                   drivers, showModal, modalMode, showAssignModal, formItems,
                   itemInput>>
    /\ UNCHANGED notDeliveryPoints

\* the X and Cancel buttons of the assign modal
DPcloseAssignModal ==
    /\ page = "DeliveryPoints"
    /\ showAssignModal
    /\ showAssignModal' = FALSE
    /\ ev' = Did("closeAssignModal")
    /\ UNCHANGED <<page, deliveries, loading, pending, selectedDelivery,
                   drivers, showModal, modalMode, selectedDriver, formItems,
                   itemInput>>
    /\ UNCHANGED notDeliveryPoints

\* DeliveryPoints.handleAssignDriver up to its await; its button is disabled
\* while no driver is selected
handleAssignDriver ==
    /\ page = "DeliveryPoints"
    /\ showAssignModal
    /\ Truthy(selectedDriver)
    /\ NPending < MaxPending
    /\ pending' = Add(pending,
           [Request("assignDriver", selectedDelivery.id, FALSE)
               EXCEPT !.driver = selectedDriver])
    /\ ev' = [Did("handleAssignDriver") EXCEPT !.outcome = "sent",
                 !.sent = {[kind |-> "assignDriver", id |-> selectedDelivery.id]},
                 !.arg = selectedDelivery]
    /\ UNCHANGED <<page, deliveries, loading, selectedDelivery, drivers,
                   showModal, modalMode, showAssignModal, selectedDriver,
                   formItems, itemInput>>
    /\ UNCHANGED notDeliveryPoints

\* the cards DeliveryPoints shows an Approve Delivery button on
DPApproveTargets == {d \in DPCards : d.status = "completed"}

\* DeliveryPoints.handleApproveDelivery up to its await
handleApproveDelivery(delivery, confirmed) ==
    /\ page = "DeliveryPoints"
    /\ delivery \in DPApproveTargets
    /\ IF confirmed
       THEN /\ NPending < MaxPending
            /\ pending' = Add(pending, Request("approve", delivery.id, FALSE))
            /\ ev' = [Did("handleApproveDelivery") EXCEPT !.outcome = "sent", !.confirmed = TRUE,
                         !.sent = {[kind |-> "approve", id |-> delivery.id]},
                         !.arg = delivery, !.pre = PageState]
       ELSE /\ ev' = [Did("handleApproveDelivery") EXCEPT
                         !.outcome = "declined", !.pre = PageState]
            /\ UNCHANGED pending
    /\ UNCHANGED <<page, deliveries, loading, selectedDelivery, drivers,
                   showModal, modalMode, showAssignModal, selectedDriver,
                   formItems, itemInput>>
    /\ UNCHANGED notDeliveryPoints

\* the requests of DeliveryPoints that change a delivery
DPChanges == {"create", "update", "delete", "assignDriver", "approve"}

DPSuccessAlert(op) ==
    CASE op = "create" -> "Delivery point created successfully!"
      [] op = "update" -> "Delivery point updated successfully!"
      [] op = "delete" -> "Delivery deleted successfully!"
      [] op = "assignDriver" -> "Driver assigned successfully!"
      [] op = "approve" -> "Delivery approved!"

DPFailureAlert(op, error) ==
    CASE op \in {"create", "update"} ->
             OrElse(MessageOf(error), "Failed to save delivery")
      [] op = "delete" -> "Failed to delete delivery"
      [] op = "assignDriver" ->
             OrElse(MessageOf(error), "Failed to assign driver")
      [] op = "approve" -> "Failed to approve delivery"

\* handleSubmit, handleDeleteDelivery, handleAssignDriver and
\* handleApproveDelivery after their await
DPChangeFulfilled(r) ==
    /\ page = "DeliveryPoints"
    /\ r.op \in DPChanges
    /\ pending' = Refetch(r, "fetchDeliveries")
    /\ loading' = TRUE
    /\ showModal' = IF r.op \in {"create", "update"} THEN FALSE ELSE showModal
    /\ showAssignModal' = IF r.op = "assignDriver" THEN FALSE ELSE showAssignModal
    /\ ev' = [Did(r.op) EXCEPT !.outcome = "fulfilled",
                 !.alert = DPSuccessAlert(r.op),
                 !.sent = {[kind |-> "getAll", id |-> 0]},
                 !.refetch = TRUE, !.succeeded = {r.id}]
    /\ UNCHANGED <<page, deliveries, selectedDelivery, drivers, modalMode,
                   selectedDriver, formItems, itemInput>>
    /\ UNCHANGED notDeliveryPoints

DPChangeRejected(r, error) ==
    /\ page = "DeliveryPoints"
    /\ r.op \in DPChanges
    /\ pending' = Remove(pending, r)
    /\ ev' = [Did(r.op) EXCEPT !.outcome = "rejected", !.logged = TRUE,
                 !.alert = DPFailureAlert(r.op, error)]
    /\ UNCHANGED <<page, deliveries, loading, selectedDelivery, drivers,
                   showModal, modalMode, showAssignModal, selectedDriver,
                   formItems, itemInput>>
    /\ UNCHANGED notDeliveryPoints

\* the mount effect: fetchDeliveries() and fetchDrivers()
DeliveryPointsInit ==
    /\ page = "DeliveryPoints"
    /\ deliveries = <<>>
    /\ loading = TRUE
    /\ pending = SetToBag({Request("fetchDeliveries", 0, FALSE),
                           Request("fetchDrivers", 0, FALSE)})
    /\ selectedDelivery = NoDelivery
    /\ showDetailModal = FALSE
    /\ UiIdle

DeliveryPointsNext ==
    \/ \E r \in Pending, list \in DPDeliveryListInputs : DPFetchFulfilled(r, list)
    \/ \E r \in Pending, e \in PageErrors : DPFetchRejected(r, e)
    \/ \E r \in Pending, list \in DPDriverListInputs : DPFetchDriversFulfilled(r, list)
    \/ \E r \in Pending, e \in PageErrors : DPFetchDriversRejected(r, e)
    \/ handleAddDelivery
    \/ \E d \in Rows(deliveries) : handleEditDelivery(d)
    \/ \E d \in Rows(deliveries) : handleViewDelivery(d)
    \/ closeModal
    \/ \E input \in ItemInputs : handleAddItem(input)
    \/ handleRemoveItem
    \/ DPhandleSubmit
    \/ \E d \in Rows(deliveries), c \in BOOLEAN : handleDeleteDelivery(d, c)
    \/ \E d \in Rows(deliveries) : handleOpenAssignModal(d)
    \/ \E id \in {""} \cup DriverIds : setSelectedDriverId(id)
    \/ DPcloseAssignModal
    \/ handleAssignDriver
    \/ \E d \in Rows(deliveries), c \in BOOLEAN : handleApproveDelivery(d, c)
    \/ \E r \in Pending : DPChangeFulfilled(r)
    \/ \E r \in Pending, e \in PageErrors : DPChangeRejected(r, e)

(***************************************************************************)
(* Assignments.                                                            *)
(***************************************************************************)
\* the variables of the other pages
notAssignments == <<notPages, selectedDelivery, showDetailModal, showModal,
                    modalMode, formItems, itemInput, mapVars, imageVars>>

\* the responses of the backend to the two requests of Assignments.fetchData
ASDriverListInputs == {<<"d1", "d2">>}
ASDeliveryListInputs ==
    {<<Delivery(1, "pending", Null), Delivery(2, "pending", Null)>>,
     <<Delivery(1, "assigned", "d1"), Delivery(2, "pending", Null)>>,
     <<Delivery(1, "assigned", "d1"), Delivery(2, "assigned", "d1")>>}

\* Assignments.fetchData after its await of Promise.all
ASFetchFulfilled(r, driverList, list) ==
    /\ page = "Assignments"
    /\ r.op = "fetchData"
    /\ drivers' = driverList
    /\ deliveries' = list
    /\ loading' = FALSE
    /\ pending' = Remove(pending, r)
    /\ ev' = [Did("fetchData") EXCEPT !.outcome = "fulfilled"]
    /\ UNCHANGED <<page, showAssignModal, selectedDriver, selectedDeliveries>>
    /\ UNCHANGED notAssignments

ASFetchRejected(r, error) ==
    /\ page = "Assignments"
    /\ r.op = "fetchData"
    /\ loading' = FALSE
    /\ pending' = Remove(pending, r)
    /\ ev' = [Did("fetchData") EXCEPT !.outcome = "rejected",
                 !.logged = TRUE, !.alert = "Failed to load data"]
    /\ UNCHANGED <<page, deliveries, drivers, showAssignModal, selectedDriver,
                   selectedDeliveries>>
    /\ UNCHANGED notAssignments

\* state availableDeliveries, set together with deliveries
availableDeliveries == SelectSeq(deliveries, LAMBDA d : d.status = "pending")

\* the deliveries handleSelectDriver puts into selectedDeliveries
DriverDeliveries(list, driver) ==
    SelectSeq(list, LAMBDA d : d.assignedDriverId = driver /\ d.status # "approved")

\* Assignments.handleSelectDriver, the onClick of a driver of the list
handleSelectDriver(driver) ==
    /\ page = "Assignments"
    /\ ~loading /\ ~showAssignModal
    /\ driver \in Rows(drivers)
    /\ selectedDriver' = driver
    /\ selectedDeliveries' = DriverDeliveries(deliveries, driver)
    /\ ev' = Did("handleSelectDriver")
    /\ UNCHANGED <<page, deliveries, drivers, loading, pending, showAssignModal>>
    /\ UNCHANGED notAssignments

\* Assignments.handleOpenAssignModal; its buttons are in the panel of the
\* selected driver
ASOpenAssignModal ==
    /\ page = "Assignments"
    /\ ~loading /\ ~showAssignModal
    /\ selectedDriver # Null
    /\ showAssignModal' = TRUE
    /\ ev' = Did("handleOpenAssignModal")
    /\ UNCHANGED <<page, deliveries, drivers, loading, pending, selectedDriver,
                   selectedDeliveries>>
    /\ UNCHANGED notAssignments

\* the X and Cancel buttons of the assign modal
AScloseAssignModal ==
    /\ page = "Assignments"
    /\ showAssignModal
    /\ showAssignModal' = FALSE
    /\ ev' = Did("closeAssignModal")
    /\ UNCHANGED <<page, deliveries, drivers, loading, pending, selectedDriver,
                   selectedDeliveries>>
    /\ UNCHANGED notAssignments

\* Assignments.handleToggleDelivery, the onClick of an available delivery
handleToggleDelivery(delivery) ==
    /\ page = "Assignments"
    /\ showAssignModal
    /\ delivery \in Rows(availableDeliveries)
    /\ selectedDeliveries' =
           IF \E d \in Rows(selectedDeliveries) : d.id = delivery.id
           THEN SelectSeq(selectedDeliveries, LAMBDA d : d.id # delivery.id)
           ELSE Append(selectedDeliveries, delivery)
    /\ ev' = [Did("handleToggleDelivery") EXCEPT !.arg = delivery]
    /\ UNCHANGED <<page, deliveries, drivers, loading, pending, selectedDriver,
                   showAssignModal>>
    /\ UNCHANGED notAssignments

\* the deliveries handleAssignDeliveries sends a request for
newDeliveries == SelectSeq(selectedDeliveries, LAMBDA d : d.status = "pending")

\* the assignDriver requests handleAssignDeliveries sends, in the order of
\* newDeliveries.map: none without a driver or without a selection
AssignRequestsBug(driver, selected) ==
    IF ~Truthy(driver) THEN <<>>
    ELSE IF Len(selected) = 0 THEN <<>>
    ELSE [i \in 1..Len(selected) |->
             [kind |-> "assignDriver", id |-> selected[i].id, driver |-> driver]]
AssignRequests(driver, selected) ==
    IF ~Truthy(driver) THEN <<>>
    ELSE IF Len(selected) = 0 THEN <<>>
    ELSE LET new == SelectSeq(selected, LAMBDA d : d.status = "pending")
         IN [i \in 1..Len(new) |->
                [kind |-> "assignDriver", id |-> new[i].id, driver |-> driver]]

\* Assignments.handleAssignDeliveries up to its await of Promise.all; its
\* button is disabled while no pending delivery is selected
handleAssignDeliveries ==
    /\ page = "Assignments"
    /\ showAssignModal
    /\ Len(newDeliveries) # 0
    /\ NPending < MaxPending
    /\ IF selectedDriver = Null
       THEN /\ ev' = [Did("handleAssignDeliveries") EXCEPT
                         !.alert = "Please select a driver"]
            /\ UNCHANGED pending
       ELSE LET requests == AssignRequests(selectedDriver, selectedDeliveries)
                ids == {q.id : q \in Rows(requests)}
            IN /\ pending' = Add(pending,
                      [Request("assignDeliveries", 0, FALSE) EXCEPT
                          !.driver = selectedDriver, !.list = deliveries,
                          !.ids = ids])
               /\ ev' = [requests |-> requests] @@
                         [Did("handleAssignDeliveries") EXCEPT
                            !.outcome = "sent",
                            !.sent = {[kind |-> "assignDriver", id |-> i] : i \in ids}]
    /\ UNCHANGED <<page, deliveries, drivers, loading, selectedDriver,
                   selectedDeliveries, showAssignModal>>
    /\ UNCHANGED notAssignments

\* one of the assignDriver requests of handleAssignDeliveries is fulfilled;
\* when it is the last and none was rejected, Promise.all is fulfilled and
\* the handler goes on: fetchData() and handleSelectDriver(selectedDriver),
\* with the deliveries and the driver of the render the handler was made in
ASAssignFulfilled(r, id) ==
    /\ page = "Assignments"
    /\ r.op = "assignDeliveries"
    /\ id \in r.ids
    /\ LET rest == r.ids \ {id}
           done == r.done \cup {id}
       IN IF rest # {}
          THEN /\ pending' = Add(Remove(pending, r),
                                 [r EXCEPT !.ids = rest, !.done = done])
               /\ ev' = [Did("assignDeliveries") EXCEPT !.outcome = "waiting"]
               /\ UNCHANGED <<loading, showAssignModal, selectedDriver,
                              selectedDeliveries>>
          ELSE IF r.failed
          THEN /\ pending' = Remove(pending, r)
               /\ ev' = [Did("assignDeliveries") EXCEPT !.outcome = "ignored",
                            !.succeeded = done]
               /\ UNCHANGED <<loading, showAssignModal, selectedDriver,
                              selectedDeliveries>>
          ELSE /\ pending' = Refetch(r, "fetchData")
               /\ loading' = TRUE
               /\ showAssignModal' = FALSE
               /\ selectedDriver' = r.driver
               /\ selectedDeliveries' = DriverDeliveries(r.list, r.driver)
               /\ ev' = [Did("assignDeliveries") EXCEPT !.outcome = "fulfilled",
                            !.alert = "Successfully assigned",
                            !.sent = {[kind |-> "getAll", id |-> 0]},
                            !.refetch = TRUE, !.succeeded = done]
    /\ UNCHANGED <<page, deliveries, drivers>>
    /\ UNCHANGED notAssignments

\* one of the assignDriver requests is rejected; the first rejection rejects
\* Promise.all and the catch block runs, whatever became of the others
ASAssignRejected(r, id, error) ==
    /\ page = "Assignments"
    /\ r.op = "assignDeliveries"
    /\ id \in r.ids
    /\ LET rest == r.ids \ {id}
       IN /\ pending' = IF rest = {}
                        THEN Remove(pending, r)
                        ELSE Add(Remove(pending, r),
                                 [r EXCEPT !.ids = rest, !.failed = TRUE])
          /\ ev' = IF r.failed
                   THEN [Did("assignDeliveries") EXCEPT !.outcome = "ignored",
                            !.succeeded = IF rest = {} THEN r.done ELSE {}]
                   ELSE [Did("assignDeliveries") EXCEPT !.outcome = "rejected",
                            !.logged = TRUE,
                            !.alert = OrElse(MessageOf(error),
                                             "Failed to assign deliveries"),
                            !.succeeded = IF rest = {} THEN r.done ELSE {}]
    /\ UNCHANGED <<page, deliveries, drivers, loading, showAssignModal,
                   selectedDriver, selectedDeliveries>>
    /\ UNCHANGED notAssignments

\* the deliveries of the selected driver's panel with an Unassign button
ASUnassignTargets ==
    {d \in Rows(selectedDeliveries) :
        /\ ~loading /\ ~showAssignModal
        /\ selectedDriver # Null
        /\ d.status = "assigned"}

\* the data handleUnassignDelivery sends with deliveriesAPI.update
UnassignData ==
    [assignedDriverId |-> Null, driverName |-> Null, status |-> "pending"]

\* Assignments.handleUnassignDelivery up to its await
handleUnassignDelivery(delivery, confirmed) ==
    /\ page = "Assignments"
    /\ delivery \in ASUnassignTargets
    /\ IF confirmed
       THEN /\ NPending < MaxPending
            /\ pending' = Add(pending,
                   [Request("unassign", delivery.id, FALSE) EXCEPT
                       !.driver = selectedDriver, !.list = deliveries])
            /\ ev' = [data |-> UnassignData] @@
                     [Did("handleUnassignDelivery") EXCEPT !.outcome = "sent",
                         !.sent = {[kind |-> "update", id |-> delivery.id]},
                         !.arg = delivery]
       ELSE /\ ev' = [Did("handleUnassignDelivery") EXCEPT
                         !.outcome = "declined", !.pre = PageState]
            /\ UNCHANGED pending
    /\ UNCHANGED <<page, deliveries, drivers, loading, selectedDriver,
                   selectedDeliveries, showAssignModal>>
    /\ UNCHANGED notAssignments

\* handleUnassignDelivery after its await
ASUnassignFulfilled(r) ==
    /\ page = "Assignments"
    /\ r.op = "unassign"
    /\ pending' = Refetch(r, "fetchData")
    /\ loading' = TRUE
    /\ selectedDriver' = r.driver
    /\ selectedDeliveries' = DriverDeliveries(r.list, r.driver)
    /\ ev' = [Did("unassign") EXCEPT !.outcome = "fulfilled",
                 !.alert = "Delivery unassigned successfully",
                 !.sent = {[kind |-> "getAll", id |-> 0]},
                 !.refetch = TRUE, !.succeeded = {r.id}]
    /\ UNCHANGED <<page, deliveries, drivers, showAssignModal>>
    /\ UNCHANGED notAssignments

ASUnassignRejected(r, error) ==
    /\ page = "Assignments"
    /\ r.op = "unassign"
    /\ pending' = Remove(pending, r)
    /\ ev' = [Did("unassign") EXCEPT !.outcome = "rejected", !.logged = TRUE,
                 !.alert = "Failed to unassign delivery"]
    /\ UNCHANGED <<page, deliveries, drivers, loading, showAssignModal,
                   selectedDriver, selectedDeliveries>>
    /\ UNCHANGED notAssignments

\* the mount effect: fetchData()
AssignmentsInit ==
    /\ page = "Assignments"
    /\ deliveries = <<>>
    /\ loading = TRUE
    /\ pending = SetToBag({Request("fetchData", 0, FALSE)})
    /\ selectedDelivery = NoDelivery
    /\ showDetailModal = FALSE
    /\ UiIdle

AssignmentsNext ==
    \/ \E r \in Pending, dl \in ASDriverListInputs, list \in ASDeliveryListInputs :
           ASFetchFulfilled(r, dl, list)
    \/ \E r \in Pending, e \in PageErrors : ASFetchRejected(r, e)
    \/ \E d \in DriverIds : handleSelectDriver(d)
    \/ ASOpenAssignModal
    \/ AScloseAssignModal
    \/ \E d \in Rows(deliveries) : handleToggleDelivery(d)
    \/ handleAssignDeliveries
    \/ \E r \in Pending, id \in 1..MaxDeliveries : ASAssignFulfilled(r, id)
    \/ \E r \in Pending, id \in 1..MaxDeliveries, e \in PageErrors :
           ASAssignRejected(r, id, e)
    \/ \E d \in Rows(selectedDeliveries), c \in BOOLEAN :
           handleUnassignDelivery(d, c)
    \/ \E r \in Pending : ASUnassignFulfilled(r)
    \/ \E r \in Pending, e \in PageErrors : ASUnassignRejected(r, e)

PagesInit ==
    /\ AuthIdle
    /\ StatusIdle
    /\ ev = [op |-> "start"]
    /\ \/ DeliveryStatusInit
       \/ DeliveryPointsInit
       \/ AssignmentsInit

PagesNext ==
    \/ DeliveryStatusNext
    \/ DeliveryPointsNext
    \/ AssignmentsNext

SpecPages == PagesInit /\ [][PagesNext]_vars

(***************************************************************************)
(* Map: fetchData and the polling effect.                                  *)
(***************************************************************************)
\* the variables of the other pages
notMap == <<authVars, now, tz, selectedDate, selectedDelivery,
            showDetailModal, showModal, modalMode, showAssignModal,
            selectedDriver, selectedDeliveries, formItems, itemInput,
            imageVars, dashVars, formVars>>

\* the responses of the backend to the requests of Map.fetchData
MapDriverListInputs == {<<>>, <<"d1">>, <<"d1", "d2">>}
MapDeliveryListInputs == {<<Delivery(1, "assigned", "d1")>>}

\* the outcomes of one getDriverLocation request: rejected, data without
\* logs, data with logs
LocationResponses ==
    {[ok |-> FALSE, hasLogs |-> FALSE, logs |-> <<>>],
     [ok |-> TRUE, hasLogs |-> FALSE, logs |-> <<>>],
     [ok |-> TRUE, hasLogs |-> TRUE, logs |-> <<Log(Millis(BaseNow - 60000))>>]}

\* Map.fetchData up to its first await, in the render whose visibleDrivers
\* is seen: the two requests of Promise.all
fetchData(seen) == [Request("fetchData", 0, FALSE) EXCEPT !.ids = seen]

\* a call of fetchData(): it is now the invocation that started last, and
\* those that still await a response are older ones
Start(bag, seen) ==
    Add(BagOfAll(LAMBDA x : [x EXCEPT !.old = TRUE], bag), fetchData(seen))

\* the requests of the older invocations once the invocation r, if it is the
\* one that started last, has stored a part of its result (the drivers and
\* deliveries, or the locations): an older invocation that has yet to store
\* that part will overwrite a newer response
Overtake(bag, r, part) ==
    IF r.old THEN bag
    ELSE BagOfAll(LAMBDA x : IF part = "data" => x.op = "fetchData"
                             THEN [x EXCEPT !.overtaken = @ \cup {part}]
                             ELSE x,
                  bag)

\* the cleanup of the polling effect: clearInterval(interval) if it set one
CleanupBug == timers
Cleanup == IF interval THEN timers - 1 ELSE timers

\* whether a render re-runs the polling effect: its dependencies are
\* autoRefresh and fetchData, and fetchData changes with visibleDrivers.size
DepsChanged(auto, visible) ==
    \/ auto # autoRefresh
    \/ Cardinality(visible) # Cardinality(visibleDrivers)

\* the render that follows a change of autoRefresh or visibleDrivers: when
\* the dependencies changed, the cleanup of the polling effect and its next
\* run, which calls fetchData() and sets an interval if autoRefresh is on;
\* bag is the pending requests the handler leaves
Render(auto, visible, bag) ==
    /\ autoRefresh' = auto
    /\ UNCHANGED lastUpdate
    /\ visibleDrivers' = visible
    /\ IF DepsChanged(auto, visible)
       THEN /\ timers' = IF auto THEN Cleanup + 1 ELSE Cleanup
            /\ interval' = auto
            /\ pending' = Start(bag, visible)
       ELSE /\ pending' = bag
            /\ UNCHANGED <<timers, interval>>

\* Map.fetchData after its first await: the drivers and the deliveries are
\* stored, visibleDrivers is set to all drivers if the render the call was
\* made in had none visible, and a location request is sent for each driver.
\* The setters of an unmounted component do nothing.
MapFetchFulfilled(r, driversData, list) ==
    /\ r.op = "fetchData"
    /\ LET next == [Request("fetchLocations", 0, FALSE) EXCEPT
                       !.list = driversData, !.old = r.old,
                       !.overtaken = r.overtaken \ {"data"}]
           rest == Remove(pending, r)
       IN IF page = "Map"
          THEN /\ drivers' = driversData
               /\ deliveries' = list
               /\ Render(autoRefresh,
                         IF r.ids = {} THEN Rows(driversData) ELSE visibleDrivers,
                         Add(Overtake(rest, r, "data"), next))
               /\ UNCHANGED visibilityChanged
          ELSE /\ pending' = Add(rest, next)
               /\ UNCHANGED <<drivers, deliveries, mapVars>>
    /\ ev' = [overwrote |-> page = "Map" /\ "data" \in r.overtaken,
              responses |-> <<>>] @@
                 [Did("fetchData") EXCEPT !.outcome = "waiting",
                     !.sent = {[kind |-> "getDriverLocation", id |-> d] :
                                  d \in Rows(driversData)}]
    /\ UNCHANGED <<page, loading, driverLocations>>
    /\ UNCHANGED notMap

\* what the catch block of Map.fetchData leaves of the state the try block
\* sets last: console.error and setLoading(false)
fetchDataCatchBug == [lastUpdate |-> NewDate("fetchData"), loading |-> FALSE]
fetchDataCatchSpins == [lastUpdate |-> lastUpdate, loading |-> loading]
fetchDataCatch == [lastUpdate |-> lastUpdate, loading |-> FALSE]

\* the catch block of Map.fetchData: the drivers or the deliveries request
\* was rejected
MapFetchRejected(r, error) ==
    /\ r.op = "fetchData"
    /\ pending' = Remove(pending, r)
    /\ loading' = IF page = "Map" THEN fetchDataCatch.loading ELSE loading
    /\ lastUpdate' = IF page = "Map" THEN fetchDataCatch.lastUpdate ELSE lastUpdate
    /\ ev' = [overwrote |-> FALSE, responses |-> <<>>] @@
                 [Did("fetchData") EXCEPT !.outcome = "rejected", !.logged = TRUE]
    /\ UNCHANGED <<page, drivers, deliveries, driverLocations, autoRefresh,
                   visibleDrivers, timers, interval, visibilityChanged>>
    /\ UNCHANGED notMap

\* locationsMap of Map.fetchData: the logs of each driver whose location
\* request gave data with logs; the catch of a request that was rejected
\* returns data null
locationsMapBug(list, responses) ==
    IF \E d \in Rows(list) : ~responses[d].ok THEN <<>>
    ELSE [d \in {x \in Rows(list) : responses[x].hasLogs} |-> responses[d].logs]
locationsMap(list, responses) ==
    [d \in {x \in Rows(list) : responses[x].ok /\ responses[x].hasLogs} |->
        responses[d].logs]

\* Map.fetchData after its second await: each location request was
\* fulfilled or rejected, and a rejected one is logged and gives no logs
MapLocationsSettled(r, responses) ==
    /\ r.op = "fetchLocations"
    /\ DOMAIN responses = Rows(r.list)
    /\ IF page = "Map"
       THEN /\ driverLocations' = locationsMap(r.list, responses)
            /\ lastUpdate' = NewDate("fetchData")
            /\ loading' = FALSE
            /\ pending' = Overtake(Remove(pending, r), r, "locations")
       ELSE /\ pending' = Remove(pending, r)
            /\ UNCHANGED <<driverLocations, loading, lastUpdate>>
    /\ ev' = [overwrote |-> page = "Map" /\ "locations" \in r.overtaken,
              responses |-> responses] @@
                 [Did("fetchData") EXCEPT
                     !.outcome = IF \E d \in Rows(r.list) : ~responses[d].ok
                                 THEN "rejected" ELSE "fulfilled",
                     !.logged = \E d \in Rows(r.list) : ~responses[d].ok]
    /\ UNCHANGED <<page, drivers, deliveries, autoRefresh, visibleDrivers,
                   timers, interval, visibilityChanged>>
    /\ UNCHANGED notMap

\* the callback of the interval: fetchData of the render the effect ran in
PollTick ==
    /\ timers > 0
    /\ NPending < MaxPending
    /\ pending' = Start(pending, visibleDrivers)
    /\ ev' = [Did("interval") EXCEPT !.outcome = "sent"]
    /\ UNCHANGED <<page, drivers, deliveries, loading, driverLocations, mapVars>>
    /\ UNCHANGED notMap

\* Map.handleRefresh, the onClick of the Refresh button
handleRefresh ==
    /\ page = "Map"
    /\ NPending < MaxPending
    /\ pending' = Start(pending, visibleDrivers)
    /\ ev' = [Did("handleRefresh") EXCEPT !.outcome = "sent"]
    /\ UNCHANGED <<page, drivers, deliveries, loading, driverLocations, mapVars>>
    /\ UNCHANGED notMap

\* the onChange of the auto-refresh checkbox: setAutoRefresh(e.target.checked)
setAutoRefresh(checked) ==
    /\ page = "Map"
    /\ checked # autoRefresh
    /\ NPending < MaxPending
    /\ Render(checked, visibleDrivers, pending)
    /\ UNCHANGED visibilityChanged
    /\ ev' = Did("setAutoRefresh")
    /\ UNCHANGED <<page, drivers, deliveries, loading, driverLocations>>
    /\ UNCHANGED notMap

\* Map.toggleDriverVisibility, the onChange of a driver's checkbox
toggleDriverVisibility(driverId) ==
    /\ page = "Map"
    /\ ~loading
    /\ driverId \in Rows(drivers)
    /\ NPending < MaxPending
    /\ Render(autoRefresh,
              IF driverId \in visibleDrivers
              THEN visibleDrivers \ {driverId}
              ELSE visibleDrivers \cup {driverId},
              pending)
    /\ visibilityChanged' = (visibilityChanged \/ visibleDrivers' # visibleDrivers)
    /\ ev' = Did("toggleDriverVisibility")
    /\ UNCHANGED <<page, drivers, deliveries, loading, driverLocations>>
    /\ UNCHANGED notMap

\* Map.toggleAllDrivers
toggleAllDrivers ==
    /\ page = "Map"
    /\ ~loading
    /\ NPending < MaxPending
    /\ Render(autoRefresh,
              IF Cardinality(visibleDrivers) = Len(drivers)
              THEN {}
              ELSE Rows(drivers),
              pending)
    /\ visibilityChanged' = (visibilityChanged \/ visibleDrivers' # visibleDrivers)
    /\ ev' = Did("toggleAllDrivers")
    /\ UNCHANGED <<page, drivers, deliveries, loading, driverLocations>>
    /\ UNCHANGED notMap

\* the Map page is unmounted: the cleanup of the polling effect.  The
\* responses that arrive later call the setters of an unmounted component,
\* which do nothing, and are left out.
Unmount ==
    /\ page = "Map"
    /\ page' = "none"
    /\ timers' = Cleanup
    /\ interval' = FALSE
    /\ ev' = Did("unmount")
    /\ pending' = EmptyBag
    /\ UNCHANGED <<deliveries, drivers, loading, driverLocations,
                   autoRefresh, visibleDrivers, visibilityChanged, lastUpdate>>
    /\ UNCHANGED notMap

\* the Map page after its mount: the first run of the polling effect has
\* called fetchData() and set the interval
MapInit ==
    /\ AuthIdle
    /\ now = BaseNow
    /\ tz \in TimeZones
    /\ selectedDate = Ymd(2)
    /\ driverLocations = <<>>
    /\ ev = [op |-> "start"]
    /\ page = "Map"
    /\ deliveries = <<>>
    /\ loading = TRUE
    /\ pending = Start(EmptyBag, {})
    /\ selectedDelivery = NoDelivery
    /\ showDetailModal = FALSE
    /\ drivers = <<>>
    /\ showModal = FALSE
    /\ modalMode = "add"
    /\ showAssignModal = FALSE
    /\ selectedDriver = Null
    /\ selectedDeliveries = <<>>
    /\ formItems = 0
    /\ itemInput = [name |-> "", quantity |-> ""]
    /\ autoRefresh = TRUE
    /\ visibleDrivers = {}
    /\ timers = 1
    /\ interval = TRUE
    /\ visibilityChanged = FALSE
    /\ lastUpdate = NewDate("useState")
    /\ formData = EmptyForm
    /\ searchTerm = <<>>
    /\ statusFilter = "all"
    /\ deliveryImages = [of |-> 0]
    /\ loadingImages = FALSE
    /\ stats = [totalDrivers |-> 0, onlineDrivers |-> 0, activeDeliveries |-> 0,
                totalDeliveryPoints |-> 0, completedToday |-> 0,
                pendingDeliveries |-> 0]
    /\ recentActivity = <<>>

MapNext ==
    \/ \E r \in Pending, dl \in MapDriverListInputs, list \in MapDeliveryListInputs :
           MapFetchFulfilled(r, dl, list)
    \/ \E r \in Pending, e \in PageErrors : MapFetchRejected(r, e)
    \/ \E r \in Pending : \E responses \in [Rows(r.list) -> LocationResponses] :
           MapLocationsSettled(r, responses)
    \/ PollTick
    \/ handleRefresh
    \/ \E checked \in BOOLEAN : setAutoRefresh(checked)
    \/ \E d \in DriverIds : toggleDriverVisibility(d)
    \/ toggleAllDrivers
    \/ Unmount

SpecMap == MapInit /\ [][MapNext]_vars

(***************************************************************************)
(* The counters of DeliveryStatus and of the Dashboard.                    *)
(***************************************************************************)
\* list.filter(Test).length
Count(list, Test(_)) == Cardinality({i \in 1..Len(list) : Test(list[i])})

\* DeliveryStatus: the stats of the counter cards
DSstats(list) ==
    [total |-> Len(list),
     pending |-> Count(list, LAMBDA d : d.status = "pending"),
     assigned |-> Count(list, LAMBDA d : d.status = "assigned"),
     completed |-> Count(list, LAMBDA d : d.status = "completed"),
     approved |-> Count(list, LAMBDA d : d.status = "approved")]

\* a delivery as the Dashboard reads it: with approvedAt, and with the
\* seconds of updatedAt or createdAt (0 when it has neither)
DashDelivery(status, approvedAt, updatedAt) ==
    [approvedAt |-> approvedAt, updatedAt |-> updatedAt] @@ Delivery(1, status, Null)

\* fetchDashboardData: the filter that counts completedToday
completedTodayBug(d) ==
    /\ TruthyTs(d.approvedAt)
    /\ LET approvedDate == IF HasSeconds(d.approvedAt)
                           THEN Num(d.approvedAt.v * 1000)
                           ELSE DateTime(d.approvedAt)
       IN AtLeast(approvedDate, Num(LocalMidnight(now)))
completedToday(d) ==
    /\ ~(d.status # "approved" \/ ~TruthyTs(d.approvedAt))
    /\ LET approvedDate == IF HasSeconds(d.approvedAt)
                           THEN Num(d.approvedAt.v * 1000)
                           ELSE DateTime(d.approvedAt)
       IN AtLeast(approvedDate, Num(LocalMidnight(now)))

\* deliveries.sort((a, b) => timeB - timeA): newest first, equal times in
\* the order of the response
RECURSIVE SortByTime(_)
SortByTime(list) ==
    IF list = <<>> THEN <<>>
    ELSE LET d == list[Len(list)]
             sorted == SortByTime(SubSeq(list, 1, Len(list) - 1))
             k == Count(sorted, LAMBDA x : x.updatedAt >= d.updatedAt)
         IN SubSeq(sorted, 1, k) \o <<d>> \o SubSeq(sorted, k + 1, Len(sorted))

\* .slice(0, 5)
Slice5(list) == SubSeq(list, 1, IF Len(list) < 5 THEN Len(list) ELSE 5)

\* the deliveries the backend answers the Dashboard and the counters with:
\* one in each status, approved ones approved today, early today (UTC),
\* yesterday, at no time or at an unreadable one, a pending one that was
\* approved before, and one in a status that has no counter
DashDeliveryInputs ==
    {DashDelivery("pending", Missing, 0),
     DashDelivery("assigned", Missing, 10),
     DashDelivery("completed", Missing, 20),
     DashDelivery("approved", Firestore((BaseNow - HourMs) \div 1000), 30),
     DashDelivery("approved", Firestore((2 * DayMs + 3 * HourMs) \div 1000), 0),
     DashDelivery("approved", DateString(BaseNow - DayMs), 0),
     DashDelivery("approved", Missing, 0),
     DashDelivery("approved", BadString, 0),
     DashDelivery("pending", Firestore((BaseNow - HourMs) \div 1000), 30),
     DashDelivery("cancelled", Missing, 0)}

\* a location of locationsAPI.getAllLocations
Location(driverId, timestamp) == [driverId |-> driverId, timestamp |-> timestamp]

\* the lists the backend may answer getAllLocations with: none, one recent
\* location, two recent locations of one driver, an old and a recent one of
\* two drivers, and one old location
LocationListInputs ==
    {<<>>,
     <<Location("d1", Millis(BaseNow - 60000))>>,
     <<Location("d1", Millis(BaseNow - 60000)),
       Location("d1", Millis(BaseNow - 2 * 60000))>>,
     <<Location("d1", Millis(BaseNow - 2 * fiveMinutes)),
       Location("d2", Firestore((BaseNow - 60000) \div 1000))>>,
     <<Location("d1", Millis(BaseNow - 2 * fiveMinutes))>>}

\* the drivers the locations response has a location of
DriversLocated(locations) == {locations[i].driverId : i \in 1..Len(locations)}

\* locationsRes: its data is a list, or null
LocationsResponses ==
    {[null |-> TRUE, data |-> <<>>]}
    \cup {[null |-> FALSE, data |-> l] : l \in LocationListInputs}

\* useState of Dashboard stats
NoStats ==
    [totalDrivers |-> 0, onlineDrivers |-> 0, activeDeliveries |-> 0,
     totalDeliveryPoints |-> 0, completedToday |-> 0, pendingDeliveries |-> 0]

\* the variables the Dashboard leaves alone
notDashboard == <<authVars, statusVars, deliveries, selectedDelivery,
                  showDetailModal, uiVars, imageVars, formVars>>

\* Dashboard.fetchDashboardData after its await, all three requests fulfilled
DashFetchFulfilled(r, driversData, list, locationsRes) ==
    /\ page = "Dashboard"
    /\ r.op = "fetchDashboardData"
    /\ LET locations == IF locationsRes.null THEN <<>> ELSE locationsRes.data
           onlineDrivers == Count(locations, LAMBDA loc : dashboardRecent(loc.timestamp))
           activeDeliveries ==
               Count(list, LAMBDA d : d.status = "assigned" \/ d.status = "completed")
           pendingDeliveries == Count(list, LAMBDA d : d.status = "pending")
       IN /\ stats' = [totalDrivers |-> Len(driversData),
                       onlineDrivers |-> onlineDrivers,
                       activeDeliveries |-> activeDeliveries,
                       totalDeliveryPoints |-> Len(list),
                       completedToday |-> Count(list, completedToday),
                       pendingDeliveries |-> pendingDeliveries]
          /\ recentActivity' = Slice5(SortByTime(list))
    /\ loading' = FALSE
    /\ pending' = Remove(pending, r)
    /\ ev' = [list |-> list,
              located |-> DriversLocated(IF locationsRes.null THEN <<>>
                                         ELSE locationsRes.data)]
                 @@ [Did("fetchDashboardData") EXCEPT !.outcome = "fulfilled"]
    /\ UNCHANGED page
    /\ UNCHANGED notDashboard

\* fetchDashboardData's catch block: one of the three requests was rejected
DashFetchRejected(r, error) ==
    /\ page = "Dashboard"
    /\ r.op = "fetchDashboardData"
    /\ loading' = FALSE
    /\ pending' = Remove(pending, r)
    /\ ev' = [list |-> <<>>, located |-> {}] @@
                 [Did("fetchDashboardData") EXCEPT !.outcome = "rejected",
                     !.logged = TRUE]
    /\ UNCHANGED <<page, stats, recentActivity>>
    /\ UNCHANGED notDashboard

\* the page is opened (again): its state starts over and its mount effect
\* fetches; a response to the component that was unmounted is dropped
Mount(p) ==
    /\ page' = p
    /\ deliveries' = <<>>
    /\ loading' = TRUE
    /\ stats' = NoStats
    /\ recentActivity' = <<>>
    /\ pending' = SetToBag({Request(IF p = "Dashboard" THEN "fetchDashboardData"
                                    ELSE "fetchDeliveries", 0, FALSE)})
    /\ ev' = Did("mount")
    /\ UNCHANGED <<authVars, statusVars, selectedDelivery, showDetailModal,
                   uiVars, imageVars, formVars>>

StatsInit ==
    /\ AuthIdle
    /\ now = BaseNow
    /\ tz \in TimeZones
    /\ selectedDate = EmptyDate
    /\ driverLocations = <<>>
    /\ page \in {"Dashboard", "DeliveryStatus"}
    /\ deliveries = <<>>
    /\ loading = TRUE
    /\ pending = SetToBag({Request(IF page = "Dashboard" THEN "fetchDashboardData"
                                   ELSE "fetchDeliveries", 0, FALSE)})
    /\ selectedDelivery = NoDelivery
    /\ showDetailModal = FALSE
    /\ UiIdle
    /\ ev = Did("mount")

StatsNext ==
    \/ \E r \in Pending, dl \in DriverListInputs,
          list \in SeqsUpTo(DashDeliveryInputs, MaxDeliveries),
          locs \in LocationsResponses : DashFetchFulfilled(r, dl, list, locs)
    \/ \E r \in Pending, e \in PageErrors : DashFetchRejected(r, e)
    \/ \E r \in Pending, list \in SeqsUpTo(DashDeliveryInputs, MaxDeliveries) :
          DSFetchFulfilled(r, list)
    \/ \E r \in Pending, e \in PageErrors : DSFetchRejected(r, e)
    \/ \E p \in {"Dashboard", "DeliveryStatus"} : Mount(p)
    \/ Tick

SpecStats == StatsInit /\ [][StatsNext]_vars

(***************************************************************************)
(* Drivers: the list, the form modal and its requests.                     *)
(***************************************************************************)
\* the variables of the other pages
notDrivers == <<authVars, statusVars, dashVars, deliveries, selectedDelivery,
                showDetailModal, showAssignModal, selectedDeliveries, formItems,
                itemInput, mapVars, imageVars, searchTerm, statusFilter>>

\* the drivers of the backend: one with every field, one without a phone
DriverRecord(id) ==
    IF id = "d1"
    THEN [id |-> id, fullname |-> "Ann", username |-> "ann", phone |-> "1"]
    ELSE [id |-> id, fullname |-> "Ann", username |-> "ann", phone |-> Null]

\* the lists the backend may answer driversAPI.getAll with
DRDriverListInputs == {<<>>, <<"d1", "d2">>}

\* what is typed into the fields of the form
FormInputs ==
    [fullname |-> {"", "Ann"}, username |-> {"", "ann"},
     password |-> {"", "pw"}, phone |-> {"", "1"}]

\* data.field, undefined when data has no such field
Get(data, field) == IF field \in DOMAIN data THEN data[field] ELSE Null

\* driversAPI.create: the body of POST /drivers
driversAPIcreate(data) ==
    [username |-> data.username, password |-> data.password,
     fullname |-> data.fullname, phone |-> data.phone]

\* driversAPI.update: the body of PUT /drivers/:id
driversAPIupdateBug(data) ==
    [fullname |-> data.fullname, phone |-> data.phone,
     password |-> Get(data, "password")]
driversAPIupdate(data) ==
    IF Truthy(Get(data, "password"))
    THEN [fullname |-> data.fullname, phone |-> data.phone,
          password |-> data.password]
    ELSE [fullname |-> data.fullname, phone |-> data.phone]

\* updateData of Drivers.handleSubmit
updateData(form) ==
    IF Truthy(form.password)
    THEN [fullname |-> form.fullname, phone |-> form.phone,
          password |-> form.password]
    ELSE [fullname |-> form.fullname, phone |-> form.phone]

\* the request Drivers.handleSubmit sends in a modal mode, null when it
\* sends none
SubmitRequest(mode, form, selected) ==
    IF mode = "add"
    THEN [kind |-> "create", id |-> Null, data |-> driversAPIcreate(form)]
    ELSE IF mode = "edit"
    THEN [kind |-> "update", id |-> selected,
          data |-> driversAPIupdate(updateData(form))]
    ELSE Null

\* the form's validation before onSubmit: the required fields are filled;
\* the username field is disabled in edit mode and is not validated then
FormValid(mode, form) ==
    /\ form.fullname # ""
    /\ form.phone # ""
    /\ mode = "add" => form.username # "" /\ form.password # ""

\* the rows' buttons and the Add button are under the overlay of an open
\* modal, and the rows are replaced by a spinner while loading
DRRows == {d \in Rows(drivers) : ~loading /\ ~showModal}

\* Drivers.fetchDrivers after its await, with its finally block
DRFetchFulfilled(r, list) ==
    /\ page = "Drivers"
    /\ r.op = "fetchDrivers"
    /\ drivers' = list
    /\ loading' = FALSE
    /\ pending' = Remove(pending, r)
    /\ ev' = [Did("fetchDrivers") EXCEPT !.outcome = "fulfilled"]
    /\ UNCHANGED <<page, showModal, modalMode, selectedDriver, formData>>
    /\ UNCHANGED notDrivers

\* fetchDrivers' catch and finally blocks
DRFetchRejected(r, error) ==
    /\ page = "Drivers"
    /\ r.op = "fetchDrivers"
    /\ loading' = FALSE
    /\ pending' = Remove(pending, r)
    /\ ev' = [Did("fetchDrivers") EXCEPT !.outcome = "rejected", !.logged = TRUE,
                 !.alert = "Failed to load drivers"]
    /\ UNCHANGED <<page, drivers, showModal, modalMode, selectedDriver, formData>>
    /\ UNCHANGED notDrivers

handleAddDriver ==
    /\ page = "Drivers"
    /\ ~showModal
    /\ modalMode' = "add"
    /\ formData' = EmptyForm
    /\ showModal' = TRUE
    /\ ev' = Did("handleAddDriver")
    /\ UNCHANGED <<page, drivers, loading, pending, selectedDriver>>
    /\ UNCHANGED notDrivers

handleEditDriver(driver) ==
    /\ page = "Drivers"
    /\ driver \in DRRows
    /\ modalMode' = "edit"
    /\ selectedDriver' = driver
    /\ formData' = [fullname |-> OrElse(DriverRecord(driver).fullname, ""),
                    username |-> OrElse(DriverRecord(driver).username, ""),
                    password |-> "",
                    phone |-> OrElse(DriverRecord(driver).phone, "")]
    /\ showModal' = TRUE
    /\ ev' = Did("handleEditDriver")
    /\ UNCHANGED <<page, drivers, loading, pending>>
    /\ UNCHANGED notDrivers

handleViewDriver(driver) ==
    /\ page = "Drivers"
    /\ driver \in DRRows
    /\ modalMode' = "view"
    /\ selectedDriver' = driver
    /\ showModal' = TRUE
    /\ ev' = Did("handleViewDriver")
    /\ UNCHANGED <<page, drivers, loading, pending, formData>>
    /\ UNCHANGED notDrivers

\* the X and Cancel buttons of the modal: setShowModal(false)
DRcloseModal ==
    /\ page = "Drivers"
    /\ showModal
    /\ showModal' = FALSE
    /\ ev' = Did("closeModal")
    /\ UNCHANGED <<page, drivers, loading, pending, modalMode, selectedDriver,
                   formData>>
    /\ UNCHANGED notDrivers

\* the onChange of a field of the form: setFormData({...formData, field: value})
setFormData(field, value) ==
    /\ page = "Drivers"
    /\ showModal /\ modalMode # "view"
    /\ field = "username" => modalMode # "edit"
    /\ formData[field] # value
    /\ formData' = [formData EXCEPT ![field] = value]
    /\ ev' = Did("setFormData")
    /\ UNCHANGED <<page, drivers, loading, pending, showModal, modalMode,
                   selectedDriver>>
    /\ UNCHANGED notDrivers

\* Drivers.handleSubmit up to its await; the form is shown in add and edit
\* mode only
DRhandleSubmit ==
    /\ page = "Drivers"
    /\ showModal /\ modalMode # "view"
    /\ FormValid(modalMode, formData)
    /\ NPending < MaxPending
    /\ LET request == SubmitRequest(modalMode, formData, selectedDriver)
       IN /\ pending' = Add(pending, [Request(request.kind, 0, FALSE) EXCEPT
                                          !.driver = request.id])
          /\ ev' = [request |-> request, mode |-> modalMode, form |-> formData] @@
                       [Did("handleSubmit") EXCEPT !.outcome = "sent",
                           !.sent = {[kind |-> request.kind, id |-> request.id]}]
    /\ UNCHANGED <<page, drivers, loading, showModal, modalMode, selectedDriver,
                   formData>>
    /\ UNCHANGED notDrivers

\* Drivers.handleDeleteDriver up to its await
handleDeleteDriver(driver, confirmed) ==
    /\ page = "Drivers"
    /\ driver \in DRRows
    /\ IF confirmed
       THEN /\ NPending < MaxPending
            /\ pending' = Add(pending, [Request("delete", 0, FALSE) EXCEPT
                                            !.driver = driver])
            /\ ev' = [Did("handleDeleteDriver") EXCEPT !.outcome = "sent",
                         !.confirmed = TRUE,
                         !.sent = {[kind |-> "delete", id |-> driver]}]
       ELSE /\ ev' = [Did("handleDeleteDriver") EXCEPT !.outcome = "declined"]
            /\ UNCHANGED pending
    /\ UNCHANGED <<page, drivers, loading, showModal, modalMode, selectedDriver,
                   formData>>
    /\ UNCHANGED notDrivers

DRChanges == {"create", "update", "delete"}

DRSuccessAlert(op) ==
    CASE op = "create" -> "Driver added successfully!"
      [] op = "update" -> "Driver updated successfully!"
      [] op = "delete" -> "Driver deleted successfully!"

DRFailureAlert(op, error) ==
    IF op = "delete" THEN OrElse(MessageOf(error), "Failed to delete driver")
    ELSE OrElse(MessageOf(error), "Failed to save driver")

\* what handleSubmit does to the modal after its await: setShowModal(false)
\* when the request was fulfilled, nothing in its catch block
ModalAfterSaveBug(fulfilled) == FALSE
ModalAfterSave(fulfilled) == IF fulfilled THEN FALSE ELSE showModal

\* handleSubmit and handleDeleteDriver after their await: the alert, the
\* modal closed after a save, and fetchDrivers() up to its await
DRChangeFulfilled(r) ==
    /\ page = "Drivers"
    /\ r.op \in DRChanges
    /\ showModal' = IF r.op = "delete" THEN showModal ELSE ModalAfterSave(TRUE)
    /\ loading' = TRUE
    /\ pending' = Refetch(r, "fetchDrivers")
    /\ ev' = [Did(r.op) EXCEPT !.outcome = "fulfilled",
                 !.alert = DRSuccessAlert(r.op),
                 !.sent = {[kind |-> "getAll", id |-> 0]},
                 !.refetch = TRUE]
    /\ UNCHANGED <<page, drivers, modalMode, selectedDriver, formData>>
    /\ UNCHANGED notDrivers

\* the catch blocks of handleSubmit and handleDeleteDriver
DRChangeRejected(r, error) ==
    /\ page = "Drivers"
    /\ r.op \in DRChanges
    /\ showModal' = IF r.op = "delete" THEN showModal ELSE ModalAfterSave(FALSE)
    /\ pending' = Remove(pending, r)
    /\ ev' = [Did(r.op) EXCEPT !.outcome = "rejected", !.logged = TRUE,
                 !.alert = DRFailureAlert(r.op, error)]
    /\ UNCHANGED <<page, drivers, loading, modalMode, selectedDriver, formData>>
    /\ UNCHANGED notDrivers

\* the mount effect: fetchDrivers()
DriversInit ==
    /\ AuthIdle
    /\ StatusIdle
    /\ ev = [op |-> "start"]
    /\ page = "Drivers"
    /\ deliveries = <<>>
    /\ loading = TRUE
    /\ pending = SetToBag({Request("fetchDrivers", 0, FALSE)})
    /\ selectedDelivery = NoDelivery
    /\ showDetailModal = FALSE
    /\ UiIdle

DriversNext ==
    \/ \E r \in Pending, list \in DRDriverListInputs : DRFetchFulfilled(r, list)
    \/ \E r \in Pending, e \in PageErrors : DRFetchRejected(r, e)
    \/ handleAddDriver
    \/ \E d \in DriverIds : handleEditDriver(d)
    \/ \E d \in DriverIds : handleViewDriver(d)
    \/ DRcloseModal
    \/ \E f \in DOMAIN FormInputs : \E v \in FormInputs[f] : setFormData(f, v)
    \/ DRhandleSubmit
    \/ \E d \in DriverIds, c \in BOOLEAN : handleDeleteDriver(d, c)
    \/ \E r \in Pending : DRChangeFulfilled(r)
    \/ \E r \in Pending, e \in PageErrors : DRChangeRejected(r, e)

SpecDrivers == DriversInit /\ [][DriversNext]_vars

\* the three pages whose requests are sent from a modal
ModalsInit ==
    \/ /\ AuthIdle
       /\ StatusIdle
       /\ ev = [op |-> "start"]
       /\ \/ DeliveryStatusInit
          \/ DeliveryPointsInit
    \/ DriversInit

ModalsNext ==
    \/ DeliveryStatusNext
    \/ DeliveryPointsNext
    \/ DriversNext

SpecModals == ModalsInit /\ [][ModalsNext]_vars

(***************************************************************************)
(* The search box and the status filter of the delivery lists.             *)
(***************************************************************************)
\* a string field of a delivery: its characters, or undefined / null
Text(chars) == [null |-> FALSE, text |-> chars]
NoText == [null |-> TRUE, text |-> <<>>]

\* String.prototype.toLowerCase, on the letters the model uses
LowerChar(c) == CASE c = "A" -> "a" [] c = "B" -> "b" [] OTHER -> c
toLowerCase(str) == [i \in DOMAIN str |-> LowerChar(str[i])]

\* String.prototype.includes
includes(str, term) ==
    \E i \in 0..(Len(str) - Len(term)) : SubSeq(str, i + 1, i + Len(term)) = term

\* field?.toLowerCase().includes(term.toLowerCase()): undefined, which is
\* falsy, when the field is undefined or null
FieldIncludes(field, term) ==
    IF field.null THEN FALSE
    ELSE includes(toLowerCase(field.text), toLowerCase(term))

\* a delivery as the lists show it
ListedDelivery(id, title, destination, driverName, status) ==
    [title |-> title, destination |-> destination, driverName |-> driverName]
        @@ Delivery(id, status, Null)

matchesSearch(delivery, term) ==
    \/ FieldIncludes(delivery.title, term)
    \/ FieldIncludes(delivery.destination, term)
    \/ FieldIncludes(delivery.driverName, term)

matchesStatus(delivery, filter) == filter = "all" \/ delivery.status = filter

\* DeliveryStatus.filteredDeliveries
filteredDeliveries(list, term, filter) ==
    SelectSeq(list, LAMBDA d : matchesSearch(d, term) /\ matchesStatus(d, filter))

\* DeliveryPoints.filteredDeliveries
DPfilteredDeliveries(list, term, filter) ==
    SelectSeq(list, LAMBDA d : matchesSearch(d, term) /\ matchesStatus(d, filter))

\* the deliveries the backend answers with: with a title of both cases, with
\* a driver, with an empty title, and one that has none of the three fields
ListedDeliveryInputs ==
    {ListedDelivery(1, Text(<<"A", "b">>), Text(<<"b">>), NoText, "pending"),
     ListedDelivery(2, Text(<<"b">>), Text(<<"a">>), Text(<<"B">>), "assigned"),
     ListedDelivery(3, Text(<<>>), NoText, Text(<<"A">>), "completed"),
     ListedDelivery(4, Text(<<"b", "a">>), Text(<<"b">>), Text(<<"B">>), "approved"),
     ListedDelivery(5, NoText, NoText, NoText, "pending")}

\* what is typed into the search box
SearchInputs == {<<>>, <<"a">>, <<"A", "B">>, <<"B">>, <<"b", "b">>}

\* the options of the status select
StatusFilters == {"all"} \cup Statuses

\* the onChange of the search box: setSearchTerm(e.target.value)
setSearchTerm(term) ==
    /\ page \in {"DeliveryStatus", "DeliveryPoints"}
    /\ ~showModal /\ ~showAssignModal /\ ~showDetailModal
    /\ term # searchTerm
    /\ searchTerm' = term
    /\ ev' = Did("setSearchTerm")
    /\ UNCHANGED <<authVars, statusVars, deliveries, page, loading, pending,
                   selectedDelivery, showDetailModal, uiVars, imageVars,
                   dashVars, formData, statusFilter>>

\* the onChange of the status select: setStatusFilter(e.target.value)
setStatusFilter(filter) ==
    /\ page \in {"DeliveryStatus", "DeliveryPoints"}
    /\ ~showModal /\ ~showAssignModal /\ ~showDetailModal
    /\ filter # statusFilter
    /\ statusFilter' = filter
    /\ ev' = Did("setStatusFilter")
    /\ UNCHANGED <<authVars, statusVars, deliveries, page, loading, pending,
                   selectedDelivery, showDetailModal, uiVars, imageVars,
                   dashVars, formData, searchTerm>>

FilterInit ==
    /\ AuthIdle
    /\ StatusIdle
    /\ ev = [op |-> "start"]
    /\ \/ DeliveryStatusInit
       \/ DeliveryPointsInit

FilterNext ==
    \/ \E r \in Pending, list \in SeqsUpTo(ListedDeliveryInputs, MaxDeliveries) :
          DSFetchFulfilled(r, list)
    \/ \E r \in Pending, list \in SeqsUpTo(ListedDeliveryInputs, MaxDeliveries) :
          DPFetchFulfilled(r, list)
    \/ \E r \in Pending, list \in DPDriverListInputs : DPFetchDriversFulfilled(r, list)
    \/ \E term \in SearchInputs : setSearchTerm(term)
    \/ \E filter \in StatusFilters : setStatusFilter(filter)

SpecFilter == FilterInit /\ [][FilterNext]_vars

(***************************************************************************)
(* Every page with its list fetch, and requests that settle.               *)
(***************************************************************************)
\* the responses of the backend here: the data of a list has no part in the
\* loading flag, and one list for each page is followed
LiveDashLists == {<<>>, <<DashDelivery("pending", Missing, 0)>>}
LiveDashLocations == {l \in LocationsResponses : Len(l.data) = 0}
LiveDPLists ==
    {<<Delivery(1, "completed", "d1"),
       [Delivery(2, "pending", Null) EXCEPT !.items = 0]>>}
LiveItemInputs == {[name |-> "", quantity |-> ""], [name |-> "box", quantity |-> "2"]}
LiveASLists == {<<Delivery(1, "assigned", "d1"), Delivery(2, "pending", Null)>>}
LiveMapDrivers == {<<>>, <<"d1">>}

\* the pages with these responses
LiveDeliveryPointsNext ==
    \/ \E r \in Pending, list \in LiveDPLists : DPFetchFulfilled(r, list)
    \/ \E r \in Pending, e \in PageErrors : DPFetchRejected(r, e)
    \/ \E r \in Pending, list \in DPDriverListInputs : DPFetchDriversFulfilled(r, list)
    \/ \E r \in Pending, e \in PageErrors : DPFetchDriversRejected(r, e)
    \/ handleAddDelivery
    \/ \E d \in Rows(deliveries) : handleEditDelivery(d)
    \/ \E d \in Rows(deliveries) : handleViewDelivery(d)
    \/ closeModal
    \/ \E input \in LiveItemInputs : handleAddItem(input)
    \/ handleRemoveItem
    \/ DPhandleSubmit
    \/ \E d \in Rows(deliveries), c \in BOOLEAN : handleDeleteDelivery(d, c)
    \/ \E d \in Rows(deliveries) : handleOpenAssignModal(d)
    \/ \E id \in {""} \cup DriverIds : setSelectedDriverId(id)
    \/ DPcloseAssignModal
    \/ handleAssignDriver
    \/ \E d \in Rows(deliveries), c \in BOOLEAN : handleApproveDelivery(d, c)
    \/ \E r \in Pending : DPChangeFulfilled(r)
    \/ \E r \in Pending, e \in PageErrors : DPChangeRejected(r, e)

LiveAssignmentsNext ==
    \/ \E r \in Pending, dl \in ASDriverListInputs, list \in LiveASLists :
           ASFetchFulfilled(r, dl, list)
    \/ \E r \in Pending, e \in PageErrors : ASFetchRejected(r, e)
    \/ \E d \in DriverIds : handleSelectDriver(d)
    \/ ASOpenAssignModal
    \/ AScloseAssignModal
    \/ \E d \in Rows(deliveries) : handleToggleDelivery(d)
    \/ handleAssignDeliveries
    \/ \E r \in Pending, id \in 1..MaxDeliveries : ASAssignFulfilled(r, id)
    \/ \E r \in Pending, id \in 1..MaxDeliveries, e \in PageErrors :
           ASAssignRejected(r, id, e)
    \/ \E d \in Rows(selectedDeliveries), c \in BOOLEAN :
           handleUnassignDelivery(d, c)
    \/ \E r \in Pending : ASUnassignFulfilled(r)
    \/ \E r \in Pending, e \in PageErrors : ASUnassignRejected(r, e)

LiveMapNext ==
    \/ \E r \in Pending, dl \in LiveMapDrivers, list \in MapDeliveryListInputs :
           MapFetchFulfilled(r, dl, list)
    \/ \E r \in Pending, e \in PageErrors : MapFetchRejected(r, e)
    \/ \E r \in Pending : \E responses \in [Rows(r.list) -> LocationResponses] :
           MapLocationsSettled(r, responses)
    \/ PollTick
    \/ handleRefresh
    \/ \E checked \in BOOLEAN : setAutoRefresh(checked)
    \/ \E d \in DriverIds : toggleDriverVisibility(d)
    \/ toggleAllDrivers
    \/ Unmount

\* Dashboard: the Refresh Data button, which is rendered when the spinner
\* is not, calls fetchDashboardData()
DashRefresh ==
    /\ page = "Dashboard"
    /\ ~loading
    /\ loading' = TRUE
    /\ pending' = Add(pending, Request("fetchDashboardData", 0, FALSE))
    /\ ev' = Did("refresh")
    /\ UNCHANGED <<page, stats, recentActivity>>
    /\ UNCHANGED notDashboard

\* the Dashboard alone: its fetch, its button and the page opened again
DashNext ==
    \/ \E r \in Pending, dl \in DriverListInputs, list \in LiveDashLists,
          locs \in LiveDashLocations : DashFetchFulfilled(r, dl, list, locs)
    \/ \E r \in Pending, e \in PageErrors : DashFetchRejected(r, e)
    \/ DashRefresh
    \/ Mount("Dashboard")

LiveInit ==
    \/ PagesInit
    \/ DriversInit
    \/ MapInit
    \/ StatsInit /\ page = "Dashboard"

LiveNext ==
    \/ DeliveryStatusNext
    \/ LiveDeliveryPointsNext
    \/ LiveAssignmentsNext
    \/ DriversNext
    \/ page \in {"Map", "none"} /\ LiveMapNext
    \/ page = "Dashboard" /\ DashNext

\* the requests of one operation that await their response
Awaiting(op) == {r \in Pending : r.op = op}

\* the responses to the list fetch of each page: the request is fulfilled or
\* rejected
DSFetchSettles ==
    /\ page = "DeliveryStatus"
    /\ \E r \in Awaiting("fetchDeliveries") :
           \/ \E list \in DeliveryListInputs : DSFetchFulfilled(r, list)
           \/ \E e \in PageErrors : DSFetchRejected(r, e)
DPFetchSettles ==
    /\ page = "DeliveryPoints"
    /\ \E r \in Awaiting("fetchDeliveries") :
           \/ \E list \in LiveDPLists : DPFetchFulfilled(r, list)
           \/ \E e \in PageErrors : DPFetchRejected(r, e)
ASFetchSettles ==
    /\ page = "Assignments"
    /\ \E r \in Awaiting("fetchData") :
           \/ \E dl \in ASDriverListInputs, list \in LiveASLists :
                  ASFetchFulfilled(r, dl, list)
           \/ \E e \in PageErrors : ASFetchRejected(r, e)
DRFetchSettles ==
    /\ page = "Drivers"
    /\ \E r \in Awaiting("fetchDrivers") :
           \/ \E list \in DRDriverListInputs : DRFetchFulfilled(r, list)
           \/ \E e \in PageErrors : DRFetchRejected(r, e)
MapDataSettles ==
    /\ page = "Map"
    /\ \E r \in Awaiting("fetchData") :
           \/ \E dl \in LiveMapDrivers, list \in MapDeliveryListInputs :
                  MapFetchFulfilled(r, dl, list)
           \/ \E e \in PageErrors : MapFetchRejected(r, e)
MapLocationsSettle ==
    /\ page = "Map"
    /\ \E r \in Awaiting("fetchLocations") :
           \E responses \in [Rows(r.list) -> LocationResponses] :
               MapLocationsSettled(r, responses)
DashFetchSettles ==
    /\ page = "Dashboard"
    /\ \E r \in Awaiting("fetchDashboardData") :
           \/ \E dl \in DriverListInputs, list \in LiveDashLists,
                 locs \in LiveDashLocations :
                  DashFetchFulfilled(r, dl, list, locs)
           \/ \E e \in PageErrors : DashFetchRejected(r, e)

\* what a response to a list fetch always changes: the requests in flight
fetchVars == <<pending, loading>>

\* every request of a list fetch eventually gets its response
RequestsSettle ==
    /\ WF_fetchVars(DSFetchSettles)
    /\ WF_fetchVars(DPFetchSettles)
    /\ WF_fetchVars(ASFetchSettles)
    /\ WF_fetchVars(DRFetchSettles)
    /\ WF_fetchVars(MapDataSettles)
    /\ WF_fetchVars(MapLocationsSettle)
    /\ WF_fetchVars(DashFetchSettles)

SpecLive == LiveInit /\ [][LiveNext]_vars /\ RequestsSettle

(***************************************************************************)
(* Properties of the session and the HTTP client.                          *)
(***************************************************************************)
\* a request of the shared client, login's included, was just rejected
JustRejected ==
    ev.op = "apiRejected" \/ (ev.op = "login" /\ ~ev.result.success)

\* C1: a rejected response with status 401 removes 'token' and 'user' from
\* local storage and sets the location to /login; a rejected response with
\* any other status, or none, leaves local storage and the location as they
\* were; in both cases the error is rejected to the caller.
C1_Unauthorized ==
    JustRejected =>
        /\ ev.rejected
        /\ IF StatusOf(ev.error) = 401
           THEN lsToken = Null /\ lsUser = Null /\ path = "/login"
           ELSE lsToken = ev.pre.token /\ lsUser = ev.pre.lsUser
                /\ path = ev.pre.path

C1_Witness ==
    /\ ev.op = "apiRejected"
    /\ ev.error.hasResponse /\ ev.error.status = 401
    /\ ev.pre.token # Null /\ ev.pre.lsUser # Null /\ ev.pre.path # "/login"
    /\ lsToken = Null

\* C2: a request carries Authorization: Bearer <token> exactly when a token is
\* stored as it is sent; after a successful login the requests sent carry the
\* token that login returned, and after a logout or a 401 the requests sent
\* carry no Authorization header, until the next successful login.
C2_BearerHeader ==
    sentSince # NothingSent =>
        /\ sentSince = (IF lsToken # Null THEN Bearer(lsToken) ELSE NoHeader)
        /\ sessionEv = "login" => sentSince = Bearer(sessionTok)
        /\ sessionEv \in {"logout", "401"} => sentSince = NoHeader

C2_Witness ==
    /\ sessionEv = "logout"
    /\ sessionTok # Null
    /\ sentSince = NoHeader
    /\ ev.op = "send"

\* C9: login returns {success: true} with the returned token and user stored
\* and the context user set; a failed login returns {success: false, message}
\* with the server's message or 'Login failed' and leaves the context user,
\* the stored token and the stored user as they were before the call.
C9_LoginLeavesSession ==
    ev.op = "login" =>
        IF ev.result.success
        THEN lsToken = ev.token /\ lsUser = ev.user /\ user = ev.user
        ELSE /\ ev.result.message \in {MessageOf(ev.error), "Login failed"}
             /\ ev.result.message # Null
             /\ user = ev.pre.user
             /\ lsToken = ev.pre.token
             /\ lsUser = ev.pre.lsUser

\* C10: isAuthenticated is true exactly when user is non-null, and at
\* start-up user is non-null only when a stored user and a stored token both
\* exist.
C10_Authenticated ==
    /\ ctxIsAuthenticated <=> user # Null
    /\ ev.op = "start" => (user # Null => lsUser # Null /\ lsToken # Null)

C10_Witness ==
    /\ ev.op = "start"
    /\ lsUser # Null /\ lsToken = Null
    /\ user = Null /\ ~ctxIsAuthenticated

(***************************************************************************)
(* Properties of the recency tests and of the driver's status.             *)
(***************************************************************************)
\* the logs of a driver, none when driverLocations has no entry for it
LogsOf(driverId) ==
    IF driverId \in DOMAIN driverLocations THEN driverLocations[driverId]
    ELSE <<>>

\* a log falls on the selected date: its local calendar day is the selected
\* one (every log does while no date is selected)
OnSelectedDate(log) ==
    \/ selectedDate.text = ""
    \/ /\ ~TimeOf(log.timestamp).nan
       /\ (TimeOf(log.timestamp).v + tz) \div DayMs = selectedDate.day

\* the times of the driver's logs of the selected date
TimesOnDate(driverId) ==
    {TimeOf(LogsOf(driverId)[i].timestamp).v : i \in
        {j \in 1..Len(LogsOf(driverId)) :
            /\ OnSelectedDate(LogsOf(driverId)[j])
            /\ ~TimeOf(LogsOf(driverId)[j].timestamp).nan}}

Newest(times) == CHOOSE t \in times : \A u \in times : u <= t

\* the status C3 gives a driver
ClaimedStatus(driverId) ==
    IF TimesOnDate(driverId) = {} THEN "offline"
    ELSE IF now - Newest(TimesOnDate(driverId)) >= fiveMinutes THEN "offline"
    ELSE IF \E i \in 1..Len(deliveries) :
                /\ deliveries[i].assignedDriverId = driverId
                /\ deliveries[i].status = "assigned"
         THEN "delivering"
    ELSE "online"

\* C3: getDriverStatus is 'offline' when the driver has no log on the
\* selected date or the latest such log is five minutes old or older,
\* otherwise 'delivering' when a delivery assigned to the driver has status
\* 'assigned', otherwise 'online'.
C3_DriverStatus ==
    \A d \in DriverIds : getDriverStatus(d) = ClaimedStatus(d)

\* C4: the Dashboard test (timestamp > now - 5 min) and the Map test
\* (now - timestamp < 5 min) agree on every timestamp at every time, and a
\* ping exactly five minutes old is recent in neither.
C4_SameRecency ==
    \A ts \in TimestampInputs :
        /\ dashboardRecent(ts) <=> isLocationRecent(ts)
        /\ TimeOf(ts) = Num(now - fiveMinutes) =>
               ~dashboardRecent(ts) /\ ~isLocationRecent(ts)

C4_Witness ==
    /\ ev.op = "tick"
    /\ \E ts \in TimestampInputs :
           /\ ts.kind = "string"
           /\ TimeOf(ts) = Num(now - fiveMinutes)
           /\ ~dashboardRecent(ts) /\ ~isLocationRecent(ts)
    /\ \E ts \in TimestampInputs :
           ts.kind = "firestore" /\ dashboardRecent(ts) /\ isLocationRecent(ts)

(***************************************************************************)
(* Properties of the pages.                                                *)
(***************************************************************************)

\* C5: on the Map page at most one polling interval timer is active in every
\* reachable state: exactly one while the page is mounted with auto-refresh
\* on, none while auto-refresh is off, and none after the page is unmounted,
\* whatever the auto-refresh toggles, visibility changes and refreshes.
C5_OnePollingTimer ==
    /\ timers \in {0, 1}
    /\ page = "Map" /\ autoRefresh => timers = 1
    /\ page = "Map" /\ ~autoRefresh => timers = 0
    /\ page # "Map" => timers = 0

\* auto-refresh was switched off and on again after the drivers became
\* visible, each change having re-run the polling effect
C5_Witness ==
    /\ page = "Map"
    /\ ev.op = "setAutoRefresh"
    /\ autoRefresh
    /\ visibleDrivers # {}
    /\ timers = 1

\* C6: whenever a request of a page is rejected, an alert is shown to the
\* user in addition to the console log.
C6_FailuresAlert ==
    ev.op # "start" /\ ev.outcome = "rejected" =>
        ev.logged /\ ev.alert # Null

\* the handlers whose request changes the status of a delivery, by the name
\* their continuation records
StatusChanges == {"approve", "reject", "assignDriver", "assignDeliveries", "unassign"}

\* C7: every status change (approve, reject, assign, unassign) is a backend
\* request, and every such request that succeeds is followed by a re-fetch
\* of the list, the only way the local list changes.
C7_SuccessRefetches ==
    ev.op \in StatusChanges /\ ev.succeeded # {} => ev.refetch

\* the handlers that send an approve or a reject request
ApproveHandlers == {"handleApprove", "handleReject", "handleApproveDelivery"}

\* the deliveries of the page's local data: the list and the selected one
LocalDeliveries == Rows(deliveries) \cup {selectedDelivery}

\* C8: an approve request (and on DeliveryStatus a reject request) is sent
\* only for a delivery whose status in the page's local data is 'completed'
\* and only after the user accepts the confirmation dialog; when the user
\* declines the confirm, or cancels the rejection-reason prompt, no request
\* is sent and no page state changes.
C8_ApproveCompletedOnly ==
    ev.op \in ApproveHandlers =>
        /\ ev.sent # {} =>
               /\ ev.confirmed
               /\ \A s \in ev.sent :
                      \E d \in LocalDeliveries :
                          d.id = s.id /\ d.status = "completed"
        /\ ~ev.confirmed =>
               /\ ev.sent = {}
               /\ ev.outcome = "declined"
               /\ pageVars = ev.pre

\* a reject request was sent from the detail modal, for its completed
\* delivery
C8_Witness ==
    /\ ev.op = "handleReject"
    /\ ev.outcome = "sent"
    /\ showDetailModal
    /\ ev.arg = selectedDelivery
    /\ ev.arg.status = "completed"

(***************************************************************************)
(* Properties of the logout and of the routes.                             *)
(***************************************************************************)

\* the session is signed out and the router rests on /login
LoggedOut ==
    /\ user = Null
    /\ ~ctxIsAuthenticated
    /\ lsToken = Null
    /\ lsUser = Null
    /\ path = "/login"

\* C11: after the Logout action, from any page and any prior state, the
\* context user is null, isAuthenticated is false, the stored session is
\* cleared and the route is /login, and this stays so in every step that is
\* not a successful login.
C11_LogoutUntilLogin ==
    [][/\ ev'.op = "logout" => LoggedOut'
       /\ LoggedOut /\ ~(ev'.op = "login" /\ ev'.result.success) => LoggedOut'
      ]_vars

\* after a logout the user asked for /dashboard and the router rests on /login
C11_Witness ==
    /\ sessionEv = "logout"
    /\ ev.op = "navigate"
    /\ ev.to = "/dashboard"
    /\ LoggedOut

\* C12: every path other than /login is routed inside ProtectedRoute, where
\* '/' and every path that is none of the six pages redirect to /dashboard:
\* no navigation ends on a path outside the six pages and /login.
C12_RoutesEndOnPages ==
    /\ Canon(path) \in PagePaths \cup {"/login"}
    /\ Canon(path) \in PagePaths => ctxIsAuthenticated
    /\ ev.op = "navigate" /\ ctxIsAuthenticated /\ Canon(ev.to) \notin PagePaths \cup {"/login"}
           => path = "/dashboard"

\* a signed-in user asked for a path that no page has and the router rests
\* on /dashboard
C12_Witness ==
    /\ ev.op = "navigate"
    /\ ev.to = "/nowhere"
    /\ ctxIsAuthenticated
    /\ path = "/dashboard"

(***************************************************************************)
(* Properties of the DeliveryPoints form.                                  *)
(***************************************************************************)

\* C13: in add or edit mode, handleAddItem appends an item only when the
\* name and the quantity typed are both non-empty, and the form sends no
\* deliveries create or update request while its item list is empty.
C13_RequiredFields ==
    /\ ev.op = "handleAddItem" /\ ev.outcome = "added"
           => ev.input.name # "" /\ ev.input.quantity # ""
    /\ ev.op = "handleSubmit"
           => \A q \in ev.sent : q.kind \in {"create", "update"} /\ formItems # 0

\* the add form sent a create request with the item that was added to it
C13_Witness ==
    /\ ev.op = "handleSubmit"
    /\ modalMode = "add"
    /\ [kind |-> "create", id |-> 0] \in ev.sent
    /\ formItems = 1

(***************************************************************************)
(* Properties of the DeliveryStatus detail modal.                          *)
(***************************************************************************)

\* the detail modal is open on a delivery with proof of delivery and shows
\* images
ShowsImages ==
    /\ page = "DeliveryStatus"
    /\ showDetailModal
    /\ selectedDelivery.status \in {"completed", "approved"}
    /\ ~loadingImages
    /\ deliveryImages # ImagesOf(0)

\* C16: whenever the DeliveryStatus detail modal shows proof-of-delivery
\* images, they are the images getById returned for the selected delivery,
\* also after a failed image request and after two View Details clicks.
C16_ImagesOfSelected == ShowsImages => deliveryImages = ImagesOf(selectedDelivery.id)

(***************************************************************************)
(* Properties of the counters.                                             *)
(***************************************************************************)

\* every delivery of the list is in one of the four statuses
KnownStatuses(list) == \A d \in Rows(list) : d.status \in Statuses

\* C14: when every delivery's status is one of pending, assigned, completed,
\* approved, the DeliveryStatus counters partition the list; on the Dashboard
\* activeDeliveries + pendingDeliveries is at most totalDeliveryPoints and
\* completedToday is at most the number of approved deliveries.
C14_Counters ==
    /\ page = "DeliveryStatus" /\ KnownStatuses(deliveries)
           => LET s == DSstats(deliveries)
              IN s.pending + s.assigned + s.completed + s.approved = s.total
    /\ page = "Dashboard" /\ ev.op = "fetchDashboardData" /\ ev.outcome = "fulfilled"
           => /\ stats.activeDeliveries + stats.pendingDeliveries
                     <= stats.totalDeliveryPoints
              /\ stats.totalDeliveryPoints = Len(ev.list)
              /\ stats.completedToday
                     <= Count(ev.list, LAMBDA d : d.status = "approved")

\* the Dashboard counted a list with a pending delivery that was approved
\* before and a delivery approved today: one completed today
C14_Witness ==
    /\ page = "Dashboard"
    /\ ev.op = "fetchDashboardData" /\ ev.outcome = "fulfilled"
    /\ Len(ev.list) = 2
    /\ ev.list[1].status = "pending" /\ TruthyTs(ev.list[1].approvedAt)
    /\ ev.list[2].status = "approved"
    /\ stats.completedToday = 1
    /\ stats.pendingDeliveries = 1

(***************************************************************************)
(* Properties of the Map page's fetches and visible drivers.               *)
(***************************************************************************)

\* C15: when two Map fetchData invocations overlap, the drivers, deliveries
\* and driverLocations shown after both have completed are those returned to
\* the invocation that started last: a response of an older invocation never
\* overwrites what a newer invocation has stored.
C15_NewestFetchWins == ev.op = "fetchData" => ~ev.overwrote

\* C17: once the user has changed visibility with toggleDriverVisibility or
\* toggleAllDrivers, no later fetch, polling tick or effect re-run changes
\* visibleDrivers: fetchData sets it only as initialisation.
C17_VisibilityKept ==
    [][visibilityChanged /\ ev'.op \in {"fetchData", "interval", "handleRefresh",
                                        "setAutoRefresh", "unmount"}
          => visibleDrivers' = visibleDrivers]_vars

(***************************************************************************)
(* Properties of Assignments.                                              *)
(***************************************************************************)

\* C19: handleAssignDeliveries sends assignDriver exactly once for each
\* delivery of selectedDeliveries whose status is 'pending', each with the
\* selected driver's id, and for no other delivery; it sends no request when
\* no driver is selected, when the selection is empty, or when the selection
\* has no pending delivery.
C19_AssignRequests ==
    /\ ev.op = "handleAssignDeliveries" /\ ev.outcome = "sent" =>
           /\ \A d \in Rows(selectedDeliveries) : d.status = "pending" =>
                  Cardinality({i \in 1..Len(ev.requests) :
                                  ev.requests[i].id = d.id}) = 1
           /\ \A q \in Rows(ev.requests) :
                  /\ q.kind = "assignDriver"
                  /\ q.driver = selectedDriver
                  /\ \E d \in Rows(selectedDeliveries) :
                         d.id = q.id /\ d.status = "pending"
    /\ page = "Assignments" =>
           /\ AssignRequests(Null, selectedDeliveries) = <<>>
           /\ \A d \in DriverIds : AssignRequests(d, <<>>) = <<>>
           /\ (\A d \in Rows(selectedDeliveries) : d.status # "pending")
                  => \A d \in DriverIds : AssignRequests(d, selectedDeliveries) = <<>>

\* the driver's assigned delivery and a pending one are selected, and one
\* request was sent, for the pending one
C19_Witness ==
    /\ ev.op = "handleAssignDeliveries" /\ ev.outcome = "sent"
    /\ Len(selectedDeliveries) = 2
    /\ selectedDeliveries[1].status = "assigned"
    /\ Len(ev.requests) = 1
    /\ ev.requests[1].id = selectedDeliveries[2].id

\* C18: after handleAssignDeliveries or handleUnassignDelivery succeeds and
\* the re-fetch it starts has completed, selectedDeliveries is exactly the
\* deliveries of the re-fetched list whose assignedDriverId is the selected
\* driver's id and whose status is not 'approved'.  A fetch that completes
\* while a driver is selected is such a re-fetch: the mount's fetch completes
\* before a driver can be selected.
C18_SelectedAfterRefetch ==
    /\ page = "Assignments"
    /\ ev.op = "fetchData" /\ ev.outcome = "fulfilled"
    /\ selectedDriver # Null
    => selectedDeliveries = DriverDeliveries(deliveries, selectedDriver)

\* C20: handleAssignDeliveries is all-or-nothing: when it reports 'Failed to
\* assign deliveries', none of the selected pending deliveries has been
\* assigned to the driver, whichever of its requests succeed and fail.
C20_AllOrNothing ==
    /\ ev.op = "assignDeliveries"
    /\ ev.outcome = "rejected"
    /\ ev.alert = "Failed to assign deliveries"
    => ev.succeeded = {}

(***************************************************************************)
(* Properties of the Dashboard's driver counters.                          *)
(***************************************************************************)
\* C21: after fetchDashboardData has stored its counters, onlineDrivers is at
\* most totalDrivers, and no driver is counted twice: onlineDrivers is at most
\* the number of drivers the locations response has a location of
\* (ev.located).
C21_OnlineAtMostTotal ==
    (ev.op = "fetchDashboardData" /\ ev.outcome = "fulfilled")
        => /\ stats.onlineDrivers <= stats.totalDrivers
           /\ stats.onlineDrivers <= Cardinality(ev.located)

(***************************************************************************)
(* Properties of Map.fetchData.                                            *)
(***************************************************************************)
\* the drivers whose location request was rejected, of the fetch that has
\* just settled its location requests
FailedLocations == {d \in DOMAIN ev.responses : ~ev.responses[d].ok}

\* C22: when fetchData has settled its location requests and that of a
\* driver was rejected, the logs of every driver whose request was fulfilled
\* with logs are in driverLocations, the driver whose request failed has no
\* entry, lastUpdate is the Date the fetch made and loading is false.
C22_IndependentLocations ==
    (ev.op = "fetchData" /\ FailedLocations # {})
        => /\ \A d \in DOMAIN ev.responses \ FailedLocations :
                  ev.responses[d].hasLogs
                      => /\ d \in DOMAIN driverLocations
                         /\ driverLocations[d] = ev.responses[d].logs
           /\ \A d \in FailedLocations : d \notin DOMAIN driverLocations
           /\ lastUpdate = NewDate("fetchData")
           /\ ~loading

\* the location request of one driver failed, that of the other gave logs
C22_Witness ==
    /\ ev.op = "fetchData"
    /\ FailedLocations = {"d1"}
    /\ DOMAIN driverLocations = {"d2"}
    /\ lastUpdate.site = "fetchData"
    /\ ~loading

\* C23: the step in which the drivers or the deliveries request of fetchData
\* fails leaves drivers, deliveries, driverLocations, visibleDrivers and
\* lastUpdate as they were, and loading is false after it.
C23_FailedFetchStoresNothing ==
    [][(ev'.op = "fetchData" /\ ev'.outcome = "rejected" /\ DOMAIN ev'.responses = {})
          => /\ UNCHANGED <<drivers, deliveries, driverLocations, visibleDrivers,
                            lastUpdate>>
             /\ ~loading']_vars

\* a fetch fails after an earlier one has stored drivers, locations and
\* the time of the update
C23_Witness ==
    /\ ev.op = "fetchData" /\ ev.outcome = "rejected" /\ DOMAIN ev.responses = {}
    /\ drivers # <<>>
    /\ driverLocations # <<>>
    /\ visibleDrivers # {}
    /\ lastUpdate.site = "fetchData"
    /\ ~loading

(***************************************************************************)
(* Properties of the requests that return a delivery to pending.           *)
(***************************************************************************)
\* C24: the update request of Reject and of Unassign sends status 'pending'
\* with assignedDriverId null and driverName null; that of Reject also sends
\* completedAt null and as rejectionReason the text entered, or 'No reason
\* provided' when the text is empty.
C24_BackToPending ==
    /\ (ev.op \in {"handleReject", "handleUnassignDelivery"} /\ ev.outcome = "sent")
           => /\ ev.sent = {[kind |-> "update", id |-> ev.arg.id]}
              /\ {"status", "assignedDriverId", "driverName"} \subseteq DOMAIN ev.data
              /\ ev.data.status = "pending"
              /\ ev.data.assignedDriverId = Null
              /\ ev.data.driverName = Null
    /\ (ev.op = "handleReject" /\ ev.outcome = "sent")
           => /\ {"completedAt", "rejectionReason"} \subseteq DOMAIN ev.data
              /\ ev.data.completedAt = Null
              /\ ev.data.rejectionReason =
                     IF ev.reason = "" THEN "No reason provided" ELSE ev.reason

\* a completed delivery is rejected with an empty reason
C24_Witness ==
    /\ ev.op = "handleReject" /\ ev.outcome = "sent"
    /\ ev.reason = ""
    /\ ev.data.rejectionReason = "No reason provided"
    /\ ev.arg.status = "completed"

(***************************************************************************)
(* Properties of the Drivers form.                                         *)
(***************************************************************************)
\* the fields of the body of a request
Fields(request) == DOMAIN request.data

\* C25: an update request sent from the edit form has fullname and phone,
\* has password exactly when the password field is not empty, and never has
\* username; a create request has exactly username, password, fullname and
\* phone, with the values of the form; in view mode handleSubmit sends no
\* request.
C25_DriverPayloads ==
    /\ (page = "Drivers" /\ ev.op = "handleSubmit" /\ ev.mode = "edit")
           => /\ ev.request.kind = "update"
              /\ {"fullname", "phone"} \subseteq Fields(ev.request)
              /\ ev.request.data.fullname = ev.form.fullname
              /\ ev.request.data.phone = ev.form.phone
              /\ "password" \in Fields(ev.request) <=> ev.form.password # ""
              /\ "password" \in Fields(ev.request)
                     => ev.request.data.password = ev.form.password
              /\ "username" \notin Fields(ev.request)
    /\ (page = "Drivers" /\ ev.op = "handleSubmit" /\ ev.mode = "add")
           => /\ ev.request.kind = "create"
              /\ Fields(ev.request) = {"username", "password", "fullname", "phone"}
              /\ ev.request.data = ev.form
    /\ page = "Drivers" => SubmitRequest("view", formData, selectedDriver) = Null

\* a driver is saved from the edit form with the password left blank
C25_Witness ==
    /\ page = "Drivers" /\ ev.op = "handleSubmit" /\ ev.mode = "edit"
    /\ ev.form.password = ""
    /\ Fields(ev.request) = {"fullname", "phone"}

(***************************************************************************)
(* Properties of the filtered lists.                                       *)
(***************************************************************************)
\* the list the page shows
Filtered ==
    IF page = "DeliveryStatus"
    THEN filteredDeliveries(deliveries, searchTerm, statusFilter)
    ELSE DPfilteredDeliveries(deliveries, searchTerm, statusFilter)

\* term is a substring of the field, letters compared without their case; a
\* field the delivery does not have has no substring
SubstringOf(term, field) ==
    /\ ~field.null
    /\ \E i \in 0..(Len(field.text) - Len(term)) :
           \A k \in 1..Len(term) : LowerChar(field.text[i + k]) = LowerChar(term[k])

\* the deliveries the filtered list is said to contain
Listed(d) ==
    /\ statusFilter = "all" \/ statusFilter = d.status
    /\ \/ SubstringOf(searchTerm, d.title)
       \/ SubstringOf(searchTerm, d.destination)
       \/ SubstringOf(searchTerm, d.driverName)

\* C26: on DeliveryStatus and DeliveryPoints the filtered list holds, in the
\* order of the list, the deliveries whose status the filter admits and
\* whose title, destination or driverName has the search term as a substring
\* whatever the case of the letters; with an empty search term and the
\* filter 'all' it is the full list.
C26_FilteredList ==
    page \in {"DeliveryStatus", "DeliveryPoints"}
        => /\ Filtered = SelectSeq(deliveries, Listed)
           /\ (searchTerm = <<>> /\ statusFilter = "all") => Filtered = deliveries

(***************************************************************************)
(* Properties of the latest location of a driver.                          *)
(***************************************************************************)
\* C27: with a date selected, getLatestLocation(driverId) is the log with the
\* greatest timestamp among the driver's logs of that local calendar day
\* (from local midnight, included, to the next local midnight, excluded),
\* and null when the driver has no log on that day, in whatever order the
\* logs were received.
C27_LatestLocation ==
    selectedDate.text # ""
        => \A d \in DriverIds :
               IF TimesOnDate(d) = {} THEN getLatestLocation(d).none
               ELSE /\ ~getLatestLocation(d).none
                    /\ TimeOf(getLatestLocation(d).timestamp) =
                           Num(Newest(TimesOnDate(d)))

(***************************************************************************)
(* Properties of the modals.                                               *)
(***************************************************************************)
\* the request whose response the step handles, and a request the step sends
Settles(r) == CopiesIn(r, pending') < CopiesIn(r, pending)
Sends(r) == CopiesIn(r, pending') > CopiesIn(r, pending)

ListFetches == {"fetchDeliveries", "fetchDrivers"}

C29_AuthenticatedHasToken == ctxIsAuthenticated => lsToken # Null

(***************************************************************************)
(* Properties of the loading flag.                                         *)
(***************************************************************************)
\* a page component is mounted
Mounted == page # "none"

\* the requests of the list fetches, Map's location requests included
LoadingFetches ==
    {"fetchDeliveries", "fetchDrivers", "fetchData", "fetchLocations",
     "fetchDashboardData"}

\* a list fetch of the page awaits a response
FetchOutstanding == \E r \in Pending : r.op \in LoadingFetches

\* C30: on every page, if every request eventually settles, a page that shows
\* its loading spinner eventually shows it no more, whether its fetch is
\* fulfilled or rejected; and the mounted page never has loading true while
\* no fetch of its list is outstanding.
C30_LoadingEnds ==
    /\ [](Mounted /\ loading => FetchOutstanding)
    /\ (Mounted /\ loading) ~> (~loading \/ ~Mounted)

\* the list fetch that followed a change was rejected and the spinner is gone
C30_Witness ==
    /\ page = "Drivers"
    /\ ev.op = "fetchDrivers" /\ ev.outcome = "rejected"
    /\ drivers # <<>>
    /\ ~loading /\ ~FetchOutstanding

=============================================================================
